---- MODULE Spec2Model ----
(***************************************************************************)
(* Model of the WhatsApp conversation pipeline of ser-bot:                 *)
(*   MainController.handleTextMessageAsync  (controllers/main.controller)  *)
(*   WhatsAppAIService                      (services/whatsappai.service)  *)
(* Every `await` of the code is one step of the pipeline that runs it, so   *)
(* two pipelines interleave exactly where the event loop can switch.       *)
(* The relational store is four tables; a row's id is its index.           *)
(***************************************************************************)
EXTENDS Integers, Sequences, FiniteSets, TLC

\* ------------------------------------------------------------------ bounds
\* how many external calls (gateway, store, LLM) may fail in one behaviour
MaxFaults == 2

\* the webhook requests, one pipeline each at most
Msgs == {"m1", "m2"}

\* payload.from values: phone, "@", domain
ChatA == <<"5215551", "@", "c.us">>
ChatB == <<"5215552", "@", "c.us">>
Chats == {ChatA, ChatB}

VARIABLES
    contacts,        \* table Contact
    conversations,   \* table Conversation
    messages,        \* table Message
    bookings,        \* table Booking
    request,         \* request[m]: req.body of webhook request m
    response,        \* response[m]: the HTTP responses written to res, in order
    chatId,          \* chatId[m]: payload.from of event m
    pc,              \* pc[m]: the await the pipeline of m is suspended at
    contact,         \* processMessage: const contact (its id, 0 before step 1)
    conversation,    \* processMessage: const conversation (its id, 0 before step 2)
    messageHistory,  \* processMessage: const messageHistory
    toolCalls,       \* callAI: aiChoice.message.tool_calls
    callIdx,         \* callAI: position of the for loop over toolCalls
    aiMessage,       \* callAI: let aiMessage
    local,           \* locals of the action being executed
    sent,            \* texts the gateway accepted for event m, in order
    apologyAttempts, \* sendText calls made by the fallback of event m
    llmRequests,     \* chat-completion requests issued for event m
    executed,        \* tool calls whose action was invoked for event m, in order
    results,         \* the result objects those actions returned, in order
    onceStore,       \* the store as the first of two identical calls in a row left it
    failedAt,        \* which step threw for event m ("none" if none did)
    faults           \* external failures injected so far

store == <<contacts, conversations, messages, bookings>>
locals == <<contact, conversation, messageHistory, toolCalls, callIdx, aiMessage, local>>
observed == <<sent, apologyAttempts, llmRequests, executed, failedAt>>
returned == <<results, onceStore>>
inbound == <<request, response, chatId>>
vars == <<store, inbound, pc, locals, observed, returned, faults>>

\* ------------------------------------------------------------------ texts
UserText(m) == <<"user", m>>
DirectText(m) == <<"direct", m>>
FollowUpText(m) == <<"followup", m>>
ApologyText == <<"apology", "Lo siento">>
NoText == <<"none", "">>

\* ------------------------------------------------------------------ webhook
\* payload.body of an empty text
EmptyBody == <<>>

\* req.body of the text message with payload.id = id: body.event and the
\* payload fields processWebhook reads
TextEvent(id) ==
    [event |-> "message", id |-> id, body |-> UserText(id),
     fromMe |-> FALSE, hasMedia |-> FALSE]

\* a condition without the fromMe test
IsTextMessageFromAnyone(req) ==
    req.event = "message" /\ req.body # EmptyBody /\ ~req.hasMedia

\* processWebhook line 180: event === 'message' && payload && payload.body
\* && !payload.fromMe && !payload.hasMedia (payload is never falsy, line 168)
IsTextMessage(req) ==
    req.event = "message" /\ req.body # EmptyBody /\ ~req.fromMe /\ ~req.hasMedia

\* res.status(200).json(...) at line 194 and at lines 207-211
ProcessingResponse == [status |-> 200, message |-> "Webhook received, processing text message"]
GenericResponse ==
    [status |-> 200, message |-> "Webhook received but not processed (not a text message)"]

\* ------------------------------------------------------------------ store
RECURSIVE SplitAt(_)
\* chatId.split('@')[0]: the tokens before the first "@"
SplitAt(s) ==
    IF s = <<>> \/ Head(s) = "@" THEN <<>> ELSE <<Head(s)>> \o SplitAt(Tail(s))

PhoneNumber(chat) == SplitAt(chat)

Ids(table) == 1..Len(table)

\* prisma.contact.findUnique({ where: { phoneNumber } }): id or 0
FindContactByPhone(phone) ==
    IF \E i \in Ids(contacts) : contacts[i].phoneNumber = phone
    THEN CHOOSE i \in Ids(contacts) : contacts[i].phoneNumber = phone
    ELSE 0

\* a Contact table without the unique index
PhoneNeverTaken(phone) == FALSE

\* the database's @unique index on Contact.phoneNumber
PhoneTaken(phone) == \E i \in Ids(contacts) : contacts[i].phoneNumber = phone

\* a contact born a lead
NewContactLead(phone, name, m) ==
    [phoneNumber |-> phone, name |-> name, status |-> "LEAD", leadScore |-> 0,
     notes |-> <<>>, lastContactAt |-> m]

\* data of prisma.contact.create at lines 76-83; lastContactAt is stamped with
\* the event whose pipeline wrote the row
NewContact(phone, name, m) ==
    [phoneNumber |-> phone, name |-> name, status |-> "PROSPECT", leadScore |-> 0,
     notes |-> <<>>, lastContactAt |-> m]

\* prisma.conversation.findFirst({ where: { contactId, isActive: true },
\* orderBy: { startedAt: 'desc' } }): rows are appended in startedAt order, so
\* the first row of the descending order is the one with the largest id; 0 if none
ActiveConversations(contactId) ==
    {i \in Ids(conversations) :
        conversations[i].contactId = contactId /\ conversations[i].isActive}

Max(S) == CHOOSE x \in S : \A y \in S : y <= x

FindActiveConversation(contactId) ==
    IF ActiveConversations(contactId) = {} THEN 0
    ELSE Max(ActiveConversations(contactId))

NewConversation(contactId) ==
    [contactId |-> contactId, isActive |-> TRUE, intent |-> "none"]

\* a row created without status: the schema's default, SENT
StatusByDefault(direction) == "SENT"

\* saveMessage, line 127
StatusOf(direction) == IF direction = "OUTBOUND" THEN "SENT" ELSE "RECEIVED"

\* data of prisma.message.create at lines 129-139; timestamp: new Date() is the
\* store's logical clock, one tick per inserted row
NewMessage(conversationId, messageId, content, direction) ==
    [conversationId |-> conversationId, messageId |-> messageId,
     content |-> content, direction |-> direction,
     status |-> StatusOf(direction), timestamp |-> Len(messages) + 1]

\* take: 10
HistoryLimit == 10

RECURSIVE InsertByTimestamp(_, _)
InsertByTimestamp(row, sorted) ==
    IF sorted = <<>> THEN <<row>>
    ELSE IF row.timestamp < Head(sorted).timestamp THEN <<row>> \o sorted
    ELSE <<Head(sorted)>> \o InsertByTimestamp(row, Tail(sorted))

RECURSIVE OrderByTimestampAsc(_)
\* orderBy: { timestamp: 'asc' }
OrderByTimestampAsc(rows) ==
    IF rows = <<>> THEN <<>>
    ELSE InsertByTimestamp(rows[Len(rows)], OrderByTimestampAsc(SubSeq(rows, 1, Len(rows) - 1)))

\* take: n of an ordered result: its first n rows
Take(rows, n) == SubSeq(rows, 1, IF Len(rows) < n THEN Len(rows) ELSE n)

RowsOfConversation(table, conversationId) ==
    SelectSeq(table, LAMBDA r : r.conversationId = conversationId)

\* a findMany without orderBy: the rows in the order the table holds them
FindManyUnordered(table, conversationId) ==
    Take(RowsOfConversation(table, conversationId), HistoryLimit)

\* prisma.message.findMany({ where, orderBy: { timestamp: 'asc' }, take: 10 })
FindManyMessages(table, conversationId) ==
    Take(OrderByTimestampAsc(RowsOfConversation(table, conversationId)), HistoryLimit)

RoleOf(direction) == IF direction = "INBOUND" THEN "user" ELSE "assistant"

\* getMessageHistory: the rows found, mapped to { role, content }
getMessageHistory(table, conversationId) ==
    LET found == FindManyMessages(table, conversationId)
    IN  [i \in 1..Len(found) |->
            [role |-> RoleOf(found[i].direction), content |-> found[i].content]]

\* ------------------------------------------------------------------ tool calls
\* a row id as the string the model is given in the system prompt (contact.id)
IdString(i) == ToString(i)

MissingId == "missing"

\* prisma.<table>.findUnique({ where: { id } }): the row's index, 0 if none
FindById(table, id) ==
    IF \E i \in Ids(table) : IdString(i) = id
    THEN CHOOSE i \in Ids(table) : IdString(i) = id
    ELSE 0

\* call.function.arguments is a JSON text: ok says whether JSON.parse accepts
\* it, pairs is the object it denotes, keys in the order written
Json(pairs) == [ok |-> TRUE, pairs |-> pairs]
BadJson == [ok |-> FALSE, pairs |-> <<>>]

ToolCall(name, json) == [name |-> name, arguments |-> json]

\* Object.values(args): the values, in key order
ObjectValues(pairs) == [i \in 1..Len(pairs) |-> pairs[i][2]]

\* the positional parameters this[functionName](...Object.values(args)) binds
Args(call) == ObjectValues(call.arguments.pairs)

\* new Date(dateTime) is a valid date for ISO texts only
DateParses(dateTime) == dateTime \in {"2025-07-26", "2025-07-26T10:00:00Z"}

createBookingCall(contactId, dateTime) ==
    ToolCall("createBooking",
             Json(<< <<"contactId", contactId>>, <<"serviceName", "Boda espiritual">>,
                     <<"dateTime", dateTime>> >>))

updateContactInfoCall(contactId, updateData) ==
    ToolCall("updateContactInfo",
             Json(<< <<"contactId", contactId>>, <<"updateData", updateData>> >>))

\* what the first chat completion may hold in message.tool_calls for a contact
ModelResponses(contactId) ==
    { <<>>,
      << createBookingCall(contactId, "2025-07-26"),
         updateContactInfoCall(contactId, << <<"status", "LEAD">> >>) >>,
      << createBookingCall(MissingId, "2025-07-26") >>,
      << createBookingCall(contactId, "el sabado") >>,
      << updateContactInfoCall(MissingId, << <<"name", "Ana">> >>) >>,
      << ToolCall("createBooking", BadJson) >> }

\* enum BookingStatus
BookingStatus == {"PENDING", "CONFIRMED", "CANCELLED", "COMPLETED", "NO_SHOW"}

\* the arguments in the key order of the tool's schema (lines 172-215);
\* the optional extractedInfo is left out
analyzeCustomerIntentCall(contactId, contactStatus, leadScore) ==
    ToolCall("analyzeCustomerIntent",
             Json(<< <<"contactId", contactId>>, <<"intent", "booking">>,
                     <<"contactStatus", contactStatus>>, <<"leadScore", leadScore>>,
                     <<"interestedIn", "Boda espiritual">>,
                     <<"needsHumanAgent", FALSE>> >>))

\* the same arguments without the optional interestedIn
analyzeCustomerIntentShortCall(contactId, contactStatus, leadScore) ==
    ToolCall("analyzeCustomerIntent",
             Json(<< <<"contactId", contactId>>, <<"intent", "booking">>,
                     <<"contactStatus", contactStatus>>, <<"leadScore", leadScore>>,
                     <<"needsHumanAgent", TRUE>> >>))

\* createBooking's arguments written with serviceName first
createBookingServiceFirstCall(contactId, dateTime) ==
    ToolCall("createBooking",
             Json(<< <<"serviceName", "Boda espiritual">>, <<"contactId", contactId>>,
                     <<"dateTime", dateTime>> >>))

\* the parameter lists of the methods this[functionName] can reach (lines
\* 126, 664-670, 749, 797, 862, 880, 916)
Parameters(name) ==
    CASE name = "analyzeCustomerIntent" ->
             <<"contactId", "intent", "contactStatus", "leadScore", "interestedIn",
               "needsHumanAgent", "extractedInfo">>
      [] name = "createBooking" -> <<"contactId", "serviceName", "dateTime", "notes">>
      [] name = "updateBookingStatus" -> <<"contactId", "bookingId", "status", "notes">>
      [] name = "updateContactInfo" -> <<"contactId", "updateData">>
      [] name = "getContactBookings" -> <<"contactId", "status">>
      [] name = "addContactNotes" -> <<"contactId", "notes">>
      [] name = "saveMessage" -> <<"conversationId", "messageId", "content", "direction">>
      [] OTHER -> <<>>

\* updateBookingStatus without the optional notes
updateBookingStatusCall(contactId, bookingId, status) ==
    ToolCall("updateBookingStatus",
             Json(<< <<"contactId", contactId>>, <<"bookingId", bookingId>>,
                     <<"status", status>> >>))

updateBookingStatusNotesCall(contactId, bookingId, status, notes) ==
    ToolCall("updateBookingStatus",
             Json(<< <<"contactId", contactId>>, <<"bookingId", bookingId>>,
                     <<"status", status>>, <<"notes", notes>> >>))

getContactBookingsCall(contactId) ==
    ToolCall("getContactBookings", Json(<< <<"contactId", contactId>> >>))

addContactNotesCall(contactId, notes) ==
    ToolCall("addContactNotes",
             Json(<< <<"contactId", contactId>>, <<"notes", notes>> >>))

\* a call naming a method of the service that is no tool
saveMessageCall(conversationId, content) ==
    ToolCall("saveMessage",
             Json(<< <<"conversationId", conversationId>>, <<"messageId", "forged">>,
                     <<"content", content>>, <<"direction", "OUTBOUND">> >>))

\* a call naming nothing the service has
sendEmailCall == ToolCall("sendEmail", Json(<< <<"to", "ana@example.com">> >>))

\* the tools declared in the request, lines 166-357
Registry ==
    {"analyzeCustomerIntent", "createBooking", "updateBookingStatus",
     "updateContactInfo", "getContactBookings", "addContactNotes"}

\* line 605, this[functionName](...): the first await of the static method of
\* that name, whichever it is; a name the class does not have is not a function
EntryStep(name) ==
    CASE name = "analyzeCustomerIntent" -> "aci_findContact"
      [] name = "createBooking" -> "cb_findContact"
      [] name = "updateBookingStatus" -> "ubs_find"
      [] name = "updateContactInfo" -> "uci_update"
      [] name = "getContactBookings" -> "gcb_findContact"
      [] name = "addContactNotes" -> "acn_findContact"
      [] name = "saveMessage" -> "sm_create"
      [] OTHER -> "notAFunction"

RECURSIVE MergeFields(_, _)
\* prisma update({ data }): the given fields replace the row's
MergeFields(row, pairs) ==
    IF pairs = <<>> THEN row
    ELSE LET key == Head(pairs)[1]
             value == Head(pairs)[2]
             next == CASE key = "name" -> [row EXCEPT !.name = value]
                       [] key = "status" -> [row EXCEPT !.status = value]
                       [] key = "leadScore" -> [row EXCEPT !.leadScore = value]
                       [] key = "notes" -> [row EXCEPT !.notes = <<value>>]
                       [] OTHER -> row
         IN  MergeFields(next, Tail(pairs))

\* prisma.contact.update of row i by the pipeline of m; lastContactAt is
\* @updatedAt in the schema, so every update stamps it
UpdateContact(i, pairs, m) ==
    [contacts EXCEPT ![i] = [MergeFields(contacts[i], pairs) EXCEPT !.lastContactAt = m]]

\* a booking born confirmed
NewBookingConfirmed(contactId, args) ==
    [contactId |-> contactId, serviceName |-> args[2], dateTime |-> args[3],
     status |-> "CONFIRMED", notes |-> IF Len(args) >= 4 THEN <<args[4]>> ELSE <<>>]

\* data of prisma.booking.create at lines 770-776; notes is a list of lines,
\* notes || '' the empty one
NewBooking(contactId, args) ==
    [contactId |-> contactId, serviceName |-> args[2], dateTime |-> args[3],
     status |-> "PENDING", notes |-> IF Len(args) >= 4 THEN <<args[4]>> ELSE <<>>]

\* where: { contactId, status: { in: ['PENDING', 'CONFIRMED'] } }
ActiveStatuses == {"PENDING", "CONFIRMED"}

\* a count of the PENDING rows only
CountPendingBookings(contactId) ==
    Cardinality({b \in Ids(bookings) :
        IdString(bookings[b].contactId) = contactId /\ bookings[b].status = "PENDING"})

\* prisma.booking.count at lines 837-842
CountActiveBookings(contactId) ==
    Cardinality({b \in Ids(bookings) :
        IdString(bookings[b].contactId) = contactId /\ bookings[b].status \in ActiveStatuses})

\* data.notes of prisma.booking.update, line 825
AppendedNotes(existing, args) ==
    IF Len(args) >= 4 THEN existing \o <<args[4]>> ELSE existing

\* the objects the registry methods return
Success == [success |-> TRUE, error |-> "none"]
Failure(error) == [success |-> FALSE, error |-> error]
ContactNotFound == Failure("Contacto no encontrado")
NoActiveConversation == Failure("No hay conversacion activa para el contacto")
BookingNotFound == Failure("Reserva no encontrada")
BookingOfOtherContact == Failure("Esta reserva no pertenece al contacto indicado")

\* ------------------------------------------------------------------ control
\* no call has been repeated yet
NoStore == <<>>

Terminal == {"DONE", "FAILED"}

CanFail == faults < MaxFaults

Goto(m, step) == pc' = [pc EXCEPT ![m] = step]

\* persisting the reply before it is sent
NextStepSaveFirst(step) ==
    CASE step = "conversation" -> "saveInbound"
      [] step = "saveInbound" -> "getHistory"
      [] step = "getHistory" -> "callAI"
      [] step = "stopTyping" -> "saveOutbound"
      [] step = "saveOutbound" -> "sendText"
      [] step = "sendText" -> "DONE"

\* persisting the inbound row only together with the reply
NextStepSaveLate(step) ==
    CASE step = "conversation" -> "getHistory"
      [] step = "getHistory" -> "callAI"
      [] step = "stopTyping" -> "saveInbound"
      [] step = "saveInbound" -> "sendText"
      [] step = "sendText" -> "saveOutbound"
      [] step = "saveOutbound" -> "DONE"

\* processMessage lines 26-47: the awaits that follow one another
\* unconditionally (callAI's continuation depends on the response)
NextStep(step) ==
    CASE step = "conversation" -> "saveInbound"
      [] step = "saveInbound" -> "getHistory"
      [] step = "getHistory" -> "callAI"
      [] step = "stopTyping" -> "sendText"
      [] step = "sendText" -> "saveOutbound"
      [] step = "saveOutbound" -> "DONE"

\* persisting the user's text as the outbound row
SavedReplyIsInbound(m) == UserText(m)

\* processMessage line 46: the content argument, aiResponse.message
SavedReply(m) == aiMessage[m]

\* a failed await that is awaited again
ThrowAndRetry(m, why) ==
    /\ Goto(m, pc[m])
    /\ failedAt' = [failedAt EXCEPT ![m] = why]

\* a throw inside processMessage is caught at line 48, returned as
\* { success: false }, rethrown by the controller at line 262 and caught at 265
Throw(m, why) ==
    /\ Goto(m, "fb_stopTyping")
    /\ failedAt' = [failedAt EXCEPT ![m] = why]

\* processWebhook has acknowledged both events and started their pipelines
Init ==
    /\ contacts = <<>>
    /\ conversations = <<>>
    /\ messages = <<>>
    /\ bookings = <<>>
    /\ request = [m \in Msgs |-> TextEvent(m)]
    /\ response = [m \in Msgs |-> <<ProcessingResponse>>]
    /\ chatId \in {c \in [Msgs -> Chats] : c["m1"] = ChatA}
    /\ pc = [m \in Msgs |-> "startTyping"]
    /\ contact = [m \in Msgs |-> 0]
    /\ conversation = [m \in Msgs |-> 0]
    /\ messageHistory = [m \in Msgs |-> <<>>]
    /\ toolCalls = [m \in Msgs |-> <<>>]
    /\ callIdx = [m \in Msgs |-> 0]
    /\ aiMessage = [m \in Msgs |-> NoText]
    /\ local = [m \in Msgs |-> "none"]
    /\ sent = [m \in Msgs |-> <<>>]
    /\ apologyAttempts = [m \in Msgs |-> 0]
    /\ llmRequests = [m \in Msgs |-> 0]
    /\ executed = [m \in Msgs |-> <<>>]
    /\ results = [m \in Msgs |-> <<>>]
    /\ onceStore = [m \in Msgs |-> NoStore]
    /\ failedAt = [m \in Msgs |-> "none"]
    /\ faults = 0

\* handleTextMessageAsync: await WahaService.startTyping(chatId)
StartTyping(m) ==
    /\ pc[m] = "startTyping"
    /\ \/ /\ Goto(m, "findContact")
          /\ UNCHANGED <<failedAt, faults>>
       \/ /\ CanFail
          /\ faults' = faults + 1
          /\ Throw(m, "startTyping")
    /\ UNCHANGED <<store, inbound, locals, sent, apologyAttempts, llmRequests, executed, returned>>

\* any prisma call can reject (connection lost, timeout): the await throws
StoreThrows(m) ==
    /\ CanFail
    /\ faults' = faults + 1
    /\ Throw(m, "store")
    /\ UNCHANGED <<store, locals, sent, apologyAttempts, llmRequests, executed, returned>>

\* findOrCreateContact: await prisma.contact.findUnique({ where: { phoneNumber } })
FindContact(m) ==
    /\ pc[m] = "findContact"
    /\ \/ /\ contact' = [contact EXCEPT ![m] = FindContactByPhone(PhoneNumber(chatId[m]))]
          /\ Goto(m, IF contact'[m] = 0 THEN "getContact" ELSE "touchContact")
          /\ UNCHANGED <<store, conversation, messageHistory, toolCalls, callIdx,
                         aiMessage, local, observed, returned, faults>>
       \/ StoreThrows(m)
    /\ UNCHANGED inbound

\* a getContact whose rejection leaves findOrCreateContact
GetContactUncaught(m) ==
    /\ Throw(m, "getContact")
    /\ UNCHANGED local

\* findOrCreateContact lines 68, 72-74: the catch only warns, contactName keeps
\* its initial value 'Desconocido' and the method goes on to create the row
GetContactCaught(m) ==
    /\ local' = [local EXCEPT ![m] = "Desconocido"]
    /\ Goto(m, "createContact")
    /\ UNCHANGED failedAt

\* findOrCreateContact: await WahaService.getContact(chatId) inside try/catch;
\* local[m] holds contactName
GetContact(m) ==
    /\ pc[m] = "getContact"
    /\ \/ /\ local' = [local EXCEPT ![m] = "pushname"]
          /\ Goto(m, "createContact")
          /\ UNCHANGED <<failedAt, faults>>
       \/ /\ CanFail
          /\ faults' = faults + 1
          /\ GetContactCaught(m)
    /\ UNCHANGED <<store, inbound, contact, conversation, messageHistory, toolCalls,
                   callIdx, aiMessage, sent, apologyAttempts, llmRequests, executed, returned>>

\* findOrCreateContact: await prisma.contact.create({ data }); the unique index
\* on phoneNumber rejects a second row for the phone, and nothing catches it
CreateContact(m) ==
    /\ pc[m] = "createContact"
    /\ \/ /\ ~PhoneTaken(PhoneNumber(chatId[m]))
          /\ contacts' = Append(contacts, NewContact(PhoneNumber(chatId[m]), local[m], m))
          /\ contact' = [contact EXCEPT ![m] = Len(contacts) + 1]
          /\ Goto(m, "findConversation")
          /\ UNCHANGED <<conversations, messages, bookings, conversation, messageHistory,
                         toolCalls, callIdx, aiMessage, local, observed, returned, faults>>
       \/ /\ PhoneTaken(PhoneNumber(chatId[m]))
          /\ Throw(m, "duplicateContact")
          /\ UNCHANGED <<store, locals, sent, apologyAttempts, llmRequests, executed, returned, faults>>
       \/ StoreThrows(m)
    /\ UNCHANGED inbound

\* findOrCreateContact: await prisma.contact.update({ data: { lastContactAt } })
TouchContact(m) ==
    /\ pc[m] = "touchContact"
    /\ \/ /\ contacts' = [contacts EXCEPT ![contact[m]].lastContactAt = m]
          /\ Goto(m, "findConversation")
          /\ UNCHANGED <<conversations, messages, bookings, locals, observed, returned, faults>>
       \/ StoreThrows(m)
    /\ UNCHANGED inbound

\* getOrCreateConversation: await prisma.conversation.findFirst(...)
FindConversation(m) ==
    /\ pc[m] = "findConversation"
    /\ \/ /\ conversation' = [conversation EXCEPT ![m] = FindActiveConversation(contact[m])]
          /\ Goto(m, IF conversation'[m] = 0 THEN "createConversation" ELSE NextStep("conversation"))
          /\ UNCHANGED <<store, contact, messageHistory, toolCalls, callIdx, aiMessage,
                         local, observed, returned, faults>>
       \/ StoreThrows(m)
    /\ UNCHANGED inbound

\* getOrCreateConversation: await prisma.conversation.create({ data })
CreateConversation(m) ==
    /\ pc[m] = "createConversation"
    /\ \/ /\ conversations' = Append(conversations, NewConversation(contact[m]))
          /\ conversation' = [conversation EXCEPT ![m] = Len(conversations) + 1]
          /\ Goto(m, NextStep("conversation"))
          /\ UNCHANGED <<contacts, messages, bookings, contact, messageHistory, toolCalls,
                         callIdx, aiMessage, local, observed, returned, faults>>
       \/ StoreThrows(m)
    /\ UNCHANGED inbound

\* processMessage step 3: await this.saveMessage(conversation.id, messageId, content, 'INBOUND')
SaveInbound(m) ==
    /\ pc[m] = "saveInbound"
    /\ \/ /\ messages' = Append(messages, NewMessage(conversation[m], request[m].id, request[m].body, "INBOUND"))
          /\ Goto(m, NextStep("saveInbound"))
          /\ UNCHANGED <<contacts, conversations, bookings, locals, observed, returned, faults>>
       \/ StoreThrows(m)
    /\ UNCHANGED inbound

\* processMessage step 4: await this.getMessageHistory(conversation.id)
GetHistory(m) ==
    /\ pc[m] = "getHistory"
    /\ \/ /\ messageHistory' = [messageHistory EXCEPT ![m] = getMessageHistory(messages, conversation[m])]
          /\ Goto(m, NextStep("getHistory"))
          /\ UNCHANGED <<store, contact, conversation, toolCalls, callIdx, aiMessage,
                         local, observed, returned, faults>>
       \/ StoreThrows(m)
    /\ UNCHANGED inbound

\* arguments parsed only as the loop reaches them: the first call's
FirstParses(calls) == calls = <<>> \/ calls[1].arguments.ok

\* callAI line 591: every call.function.arguments is parsed before the loop
AllParse(calls) == \A i \in 1..Len(calls) : calls[i].arguments.ok

\* callAI line 597: the tool branch is taken
HasToolCalls(calls) == Len(calls) > 0

\* callAI lines 602-605, up to the first await of the method called
Invoke(m, calls, i) ==
    /\ executed' = [executed EXCEPT ![m] = Append(@, calls[i])]
    /\ callIdx' = [callIdx EXCEPT ![m] = i]
    /\ Goto(m, EntryStep(calls[i].name))

\* the call the loop is at is followed by an identical one
Repeats(m) ==
    /\ callIdx[m] < Len(toolCalls[m])
    /\ toolCalls[m][callIdx[m] + 1] = toolCalls[m][callIdx[m]]

\* a loop that stops after its first call
ReturnAfterFirst(m, res) ==
    /\ results' = [results EXCEPT ![m] = Append(@, res)]
    /\ UNCHANGED onceStore
    /\ Goto(m, "followUp")
    /\ UNCHANGED <<executed, callIdx>>

\* the method returned res (line 605: const res = await ...): the for loop goes
\* on with the next call, or leaves for the follow-up request; the step's
\* writes to the store are fixed before this conjunct
Return(m, res) ==
    /\ results' = [results EXCEPT ![m] = Append(@, res)]
    /\ onceStore' = [onceStore EXCEPT ![m] =
                        IF Repeats(m) THEN <<contacts', conversations', bookings'>> ELSE @]
    /\ IF callIdx[m] < Len(toolCalls[m])
       THEN Invoke(m, toolCalls[m], callIdx[m] + 1)
       ELSE /\ Goto(m, "followUp")
            /\ UNCHANGED <<executed, callIdx>>

\* a prisma call inside a registry method rejects: the method throws
ActionThrows(m) ==
    /\ CanFail
    /\ faults' = faults + 1
    /\ Throw(m, "action")
    /\ UNCHANGED <<store, locals, sent, apologyAttempts, llmRequests, executed, returned>>

\* callAI: await axios.post(chat/completions) with tools, then lines 585-608
\* up to the next await
CallAIWith(m, responses) ==
    /\ pc[m] = "callAI"
    /\ llmRequests' = [llmRequests EXCEPT ![m] = @ + 1]
    /\ \/ \E calls \in responses :
            /\ toolCalls' = [toolCalls EXCEPT ![m] = calls]
            /\ IF ~AllParse(calls)
               THEN /\ Throw(m, "parse")
                    /\ UNCHANGED <<executed, callIdx, aiMessage>>
               ELSE IF HasToolCalls(calls)
               THEN /\ Invoke(m, calls, 1)
                    /\ UNCHANGED <<failedAt, aiMessage>>
               ELSE /\ aiMessage' = [aiMessage EXCEPT ![m] = DirectText(m)]
                    /\ Goto(m, "stopTyping")
                    /\ UNCHANGED <<executed, callIdx, failedAt>>
            /\ UNCHANGED faults
       \/ /\ CanFail
          /\ faults' = faults + 1
          /\ Throw(m, "llm")
          /\ UNCHANGED <<toolCalls, executed, callIdx, aiMessage>>
    /\ UNCHANGED <<store, inbound, contact, conversation, messageHistory, local,
                   sent, apologyAttempts, returned>>

CallAI(m) == CallAIWith(m, ModelResponses(IdString(contact[m])))

\* createBooking: await prisma.contact.findUnique({ where: { id: contactId } })
CreateBookingFind(m) ==
    /\ pc[m] = "cb_findContact"
    /\ \/ /\ FindById(contacts, Args(toolCalls[m][callIdx[m]])[1]) = 0
          /\ UNCHANGED <<store, contact, conversation, messageHistory, toolCalls,
                         aiMessage, local, sent, apologyAttempts, llmRequests,
                         failedAt, faults>>
          /\ Return(m, ContactNotFound)
       \/ /\ FindById(contacts, Args(toolCalls[m][callIdx[m]])[1]) # 0
          /\ Goto(m, "cb_create")
          /\ UNCHANGED <<store, locals, observed, returned, faults>>
       \/ ActionThrows(m)
    /\ UNCHANGED inbound

\* createBooking: await prisma.booking.create({ data }); an Invalid Date is
\* rejected by the client's validation of data.dateTime
CreateBookingCreate(m) ==
    /\ pc[m] = "cb_create"
    /\ LET args == Args(toolCalls[m][callIdx[m]]) IN
       \/ /\ DateParses(args[3])
          /\ bookings' = Append(bookings, NewBooking(FindById(contacts, args[1]), args))
          /\ Goto(m, "cb_updateContact")
          /\ UNCHANGED <<contacts, conversations, messages, locals, observed, returned, faults>>
       \/ /\ ~DateParses(args[3])
          /\ Throw(m, "action")
          /\ UNCHANGED <<store, locals, sent, apologyAttempts, llmRequests, executed, returned, faults>>
       \/ ActionThrows(m)
    /\ UNCHANGED inbound

\* createBooking: await prisma.contact.update({ data: { status: 'OPPORTUNITY' } })
CreateBookingUpdate(m) ==
    /\ pc[m] = "cb_updateContact"
    /\ \/ /\ contacts' = UpdateContact(FindById(contacts, Args(toolCalls[m][callIdx[m]])[1]),
                                       << <<"status", "OPPORTUNITY">> >>, m)
          /\ UNCHANGED <<conversations, messages, bookings, contact, conversation,
                         messageHistory, toolCalls, aiMessage, local, sent,
                         apologyAttempts, llmRequests, failedAt, faults>>
          /\ Return(m, Success)
       \/ ActionThrows(m)
    /\ UNCHANGED inbound

\* updateContactInfo: await prisma.contact.update({ where: { id }, data: updateData });
\* update of a row that does not exist rejects
UpdateContactInfo(m) ==
    /\ pc[m] = "uci_update"
    /\ LET args == Args(toolCalls[m][callIdx[m]]) IN
       \/ /\ FindById(contacts, args[1]) # 0
          /\ contacts' = UpdateContact(FindById(contacts, args[1]), args[2], m)
          /\ UNCHANGED <<conversations, messages, bookings, contact, conversation,
                         messageHistory, toolCalls, aiMessage, local, sent,
                         apologyAttempts, llmRequests, failedAt, faults>>
          /\ Return(m, Success)
       \/ /\ FindById(contacts, args[1]) = 0
          /\ Throw(m, "action")
          /\ UNCHANGED <<store, locals, sent, apologyAttempts, llmRequests, executed, returned, faults>>
       \/ ActionThrows(m)
    /\ UNCHANGED inbound

\* the arguments of the call the loop of m is executing
CallArgs(m) == Args(toolCalls[m][callIdx[m]])

\* a step of a method that reads or fails and writes nothing
ReadOnly(m) == UNCHANGED <<store, contact, conversation, messageHistory, toolCalls,
                           aiMessage, sent, apologyAttempts, llmRequests, failedAt, faults>>

\* analyzeCustomerIntent: await prisma.contact.findUnique({ where: { id: contactId } })
AnalyzeFindContact(m) ==
    /\ pc[m] = "aci_findContact"
    /\ \/ /\ FindById(contacts, CallArgs(m)[1]) = 0
          /\ ReadOnly(m)
          /\ UNCHANGED local
          /\ Return(m, ContactNotFound)
       \/ /\ FindById(contacts, CallArgs(m)[1]) # 0
          /\ Goto(m, "aci_findConversation")
          /\ UNCHANGED <<store, locals, observed, returned, faults>>
       \/ ActionThrows(m)
    /\ UNCHANGED inbound

\* analyzeCustomerIntent: await prisma.conversation.findFirst(...), lines 686-692;
\* local[m] holds conversation.id
AnalyzeFindConversation(m) ==
    /\ pc[m] = "aci_findConversation"
    /\ LET found == FindActiveConversation(FindById(contacts, CallArgs(m)[1])) IN
       \/ /\ found = 0
          /\ ReadOnly(m)
          /\ UNCHANGED local
          /\ Return(m, NoActiveConversation)
       \/ /\ found # 0
          /\ local' = [local EXCEPT ![m] = found]
          /\ Goto(m, "aci_updateContact")
          /\ UNCHANGED <<store, contact, conversation, messageHistory, toolCalls,
                         callIdx, aiMessage, observed, returned, faults>>
       \/ ActionThrows(m)
    /\ UNCHANGED inbound

\* analyzeCustomerIntent: await prisma.contact.update({ data: updateData }),
\* updateData = { status: contactStatus, leadScore } (lines 702-705)
AnalyzeUpdateContact(m) ==
    /\ pc[m] = "aci_updateContact"
    /\ \/ /\ contacts' = UpdateContact(FindById(contacts, CallArgs(m)[1]),
                                       << <<"status", CallArgs(m)[3]>>,
                                          <<"leadScore", CallArgs(m)[4]>> >>, m)
          /\ Goto(m, "aci_updateConversation")
          /\ UNCHANGED <<conversations, messages, bookings, locals, observed, returned, faults>>
       \/ ActionThrows(m)
    /\ UNCHANGED inbound

\* analyzeCustomerIntent: await prisma.conversation.update({ data: { intent, context } })
AnalyzeUpdateConversation(m) ==
    /\ pc[m] = "aci_updateConversation"
    /\ \/ /\ conversations' = [conversations EXCEPT ![local[m]].intent = CallArgs(m)[2]]
          /\ UNCHANGED <<contacts, messages, bookings, contact, conversation,
                         messageHistory, toolCalls, aiMessage, local, sent,
                         apologyAttempts, llmRequests, failedAt, faults>>
          /\ Return(m, Success)
       \/ ActionThrows(m)
    /\ UNCHANGED inbound

\* no check of the booking's owner
BelongsToAnyone(b, contactId) == TRUE

\* line 813: existingBooking.contactId !== contactId, negated
BelongsTo(b, contactId) == IdString(bookings[b].contactId) = contactId

\* updateBookingStatus: await prisma.booking.findUnique({ where: { id: bookingId } })
\* and the two checks of lines 805-818; local[m] holds existingBooking.notes
UpdateBookingFind(m) ==
    /\ pc[m] = "ubs_find"
    /\ LET existingBooking == FindById(bookings, CallArgs(m)[2]) IN
       \/ /\ existingBooking = 0
          /\ ReadOnly(m)
          /\ UNCHANGED local
          /\ Return(m, BookingNotFound)
       \/ /\ existingBooking # 0
          /\ ~BelongsTo(existingBooking, CallArgs(m)[1])
          /\ ReadOnly(m)
          /\ UNCHANGED local
          /\ Return(m, BookingOfOtherContact)
       \/ /\ existingBooking # 0
          /\ BelongsTo(existingBooking, CallArgs(m)[1])
          /\ local' = [local EXCEPT ![m] = bookings[existingBooking].notes]
          /\ Goto(m, "ubs_update")
          /\ UNCHANGED <<store, contact, conversation, messageHistory, toolCalls,
                         callIdx, aiMessage, observed, returned, faults>>
       \/ ActionThrows(m)
    /\ UNCHANGED inbound

\* a cascade that counts the other bookings before it promotes the contact
AfterBookingUpdateCountsFirst(status) ==
    IF status \in {"COMPLETED", "CANCELLED", "NO_SHOW"} THEN "ubs_count" ELSE "return"

\* lines 830-850: what follows the booking's update for the status given
AfterBookingUpdate(status) ==
    IF status = "COMPLETED" THEN "ubs_setCustomer"
    ELSE IF status \in {"CANCELLED", "NO_SHOW"} THEN "ubs_count"
    ELSE "return"

\* updateBookingStatus: await prisma.booking.update({ data: { status, notes } }),
\* whatever the row's status is
UpdateBookingUpdate(m) ==
    /\ pc[m] = "ubs_update"
    /\ LET b == FindById(bookings, CallArgs(m)[2])
           status == CallArgs(m)[3] IN
       \/ /\ bookings' = [bookings EXCEPT ![b].status = status,
                                          ![b].notes = AppendedNotes(local[m], CallArgs(m))]
          /\ UNCHANGED <<contacts, conversations, messages, contact, conversation,
                         messageHistory, toolCalls, aiMessage, local, sent,
                         apologyAttempts, llmRequests, failedAt, faults>>
          /\ IF AfterBookingUpdate(status) = "return"
             THEN Return(m, Success)
             ELSE /\ Goto(m, AfterBookingUpdate(status))
                  /\ UNCHANGED <<executed, callIdx, returned>>
       \/ ActionThrows(m)
    /\ UNCHANGED inbound

\* updateBookingStatus: await prisma.contact.update({ data: { status: 'CUSTOMER' } })
UpdateBookingSetCustomer(m) ==
    /\ pc[m] = "ubs_setCustomer"
    /\ \/ /\ contacts' = UpdateContact(FindById(contacts, CallArgs(m)[1]),
                                       << <<"status", "CUSTOMER">> >>, m)
          /\ UNCHANGED <<conversations, messages, bookings, contact, conversation,
                         messageHistory, toolCalls, aiMessage, local, sent,
                         apologyAttempts, llmRequests, failedAt, faults>>
          /\ Return(m, Success)
       \/ ActionThrows(m)
    /\ UNCHANGED inbound

\* updateBookingStatus: await prisma.booking.count(...) and the test of line 844
UpdateBookingCount(m) ==
    /\ pc[m] = "ubs_count"
    /\ \/ /\ CountActiveBookings(CallArgs(m)[1]) = 0
          /\ Goto(m, "ubs_setLead")
          /\ UNCHANGED <<store, locals, observed, returned, faults>>
       \/ /\ CountActiveBookings(CallArgs(m)[1]) # 0
          /\ ReadOnly(m)
          /\ UNCHANGED local
          /\ Return(m, Success)
       \/ ActionThrows(m)
    /\ UNCHANGED inbound

\* updateBookingStatus: await prisma.contact.update({ data: { status: 'LEAD' } })
UpdateBookingSetLead(m) ==
    /\ pc[m] = "ubs_setLead"
    /\ \/ /\ contacts' = UpdateContact(FindById(contacts, CallArgs(m)[1]),
                                       << <<"status", "LEAD">> >>, m)
          /\ UNCHANGED <<conversations, messages, bookings, contact, conversation,
                         messageHistory, toolCalls, aiMessage, local, sent,
                         apologyAttempts, llmRequests, failedAt, faults>>
          /\ Return(m, Success)
       \/ ActionThrows(m)
    /\ UNCHANGED inbound

\* getContactBookings: await prisma.contact.findUnique({ where: { id: contactId } })
GetBookingsFindContact(m) ==
    /\ pc[m] = "gcb_findContact"
    /\ \/ /\ FindById(contacts, CallArgs(m)[1]) = 0
          /\ ReadOnly(m)
          /\ UNCHANGED local
          /\ Return(m, ContactNotFound)
       \/ /\ FindById(contacts, CallArgs(m)[1]) # 0
          /\ Goto(m, "gcb_findMany")
          /\ UNCHANGED <<store, locals, observed, returned, faults>>
       \/ ActionThrows(m)
    /\ UNCHANGED inbound

\* getContactBookings: await prisma.booking.findMany({ where, orderBy })
GetBookingsFindMany(m) ==
    /\ pc[m] = "gcb_findMany"
    /\ \/ /\ ReadOnly(m)
          /\ UNCHANGED local
          /\ Return(m, Success)
       \/ ActionThrows(m)
    /\ UNCHANGED inbound

\* addContactNotes: await prisma.contact.findUnique({ where: { id: contactId } });
\* local[m] holds contact.notes
AddNotesFindContact(m) ==
    /\ pc[m] = "acn_findContact"
    /\ LET found == FindById(contacts, CallArgs(m)[1]) IN
       \/ /\ found = 0
          /\ ReadOnly(m)
          /\ UNCHANGED local
          /\ Return(m, ContactNotFound)
       \/ /\ found # 0
          /\ local' = [local EXCEPT ![m] = contacts[found].notes]
          /\ Goto(m, "acn_update")
          /\ UNCHANGED <<store, contact, conversation, messageHistory, toolCalls,
                         callIdx, aiMessage, observed, returned, faults>>
       \/ ActionThrows(m)
    /\ UNCHANGED inbound

\* addContactNotes: await prisma.contact.update({ data: { notes: updatedNotes } }),
\* updatedNotes being the notes read at line 920 and the new line
AddNotesUpdate(m) ==
    /\ pc[m] = "acn_update"
    /\ LET i == FindById(contacts, CallArgs(m)[1]) IN
       \/ /\ contacts' = [contacts EXCEPT ![i].notes = local[m] \o <<CallArgs(m)[2]>>,
                                          ![i].lastContactAt = m]
          /\ UNCHANGED <<conversations, messages, bookings, contact, conversation,
                         messageHistory, toolCalls, aiMessage, local, sent,
                         apologyAttempts, llmRequests, failedAt, faults>>
          /\ Return(m, Success)
       \/ ActionThrows(m)
    /\ UNCHANGED inbound

\* what saveMessage resolves to: the Message row, which is no result object
MessageRow == Failure("not a result object")

\* saveMessage reached through line 605: await prisma.message.create({ data }),
\* rejected by the foreign key when the conversation does not exist
SaveMessageByToolCall(m) ==
    /\ pc[m] = "sm_create"
    /\ LET args == CallArgs(m) IN
       \/ /\ FindById(conversations, args[1]) # 0
          /\ messages' = Append(messages, NewMessage(FindById(conversations, args[1]),
                                                     args[2], args[3], args[4]))
          /\ UNCHANGED <<contacts, conversations, bookings, contact, conversation,
                         messageHistory, toolCalls, aiMessage, local, sent,
                         apologyAttempts, llmRequests, failedAt, faults>>
          /\ Return(m, MessageRow)
       \/ /\ FindById(conversations, args[1]) = 0
          /\ Throw(m, "action")
          /\ UNCHANGED <<store, locals, sent, apologyAttempts, llmRequests, executed,
                         returned, faults>>
       \/ ActionThrows(m)
    /\ UNCHANGED inbound

\* line 605 with this[functionName] undefined: TypeError, nothing was called
NotAFunction(m) ==
    /\ pc[m] = "notAFunction"
    /\ Throw(m, "action")
    /\ UNCHANGED <<store, inbound, locals, sent, apologyAttempts, llmRequests, executed,
                   returned, faults>>

\* callAI: await axios.post(chat/completions) for the final reply, lines 628-648
FollowUp(m) ==
    /\ pc[m] = "followUp"
    /\ llmRequests' = [llmRequests EXCEPT ![m] = @ + 1]
    /\ \/ /\ aiMessage' = [aiMessage EXCEPT ![m] = FollowUpText(m)]
          /\ Goto(m, "stopTyping")
          /\ UNCHANGED <<failedAt, faults>>
       \/ /\ CanFail
          /\ faults' = faults + 1
          /\ Throw(m, "llm")
          /\ UNCHANGED aiMessage
    /\ UNCHANGED <<store, inbound, contact, conversation, messageHistory, toolCalls,
                   callIdx, local, sent, apologyAttempts, executed, returned>>

\* processMessage line 44: await WahaService.stopTyping(chatId)
StopTyping(m) ==
    /\ pc[m] = "stopTyping"
    /\ \/ /\ Goto(m, NextStep("stopTyping"))
          /\ UNCHANGED <<failedAt, faults>>
       \/ /\ CanFail
          /\ faults' = faults + 1
          /\ Throw(m, "stopTyping")
    /\ UNCHANGED <<store, inbound, locals, sent, apologyAttempts, llmRequests, executed, returned>>

\* processMessage line 45: await WahaService.sendText(chatId, aiResponse.message)
SendText(m) ==
    /\ pc[m] = "sendText"
    /\ \/ /\ sent' = [sent EXCEPT ![m] = Append(@, aiMessage[m])]
          /\ Goto(m, NextStep("sendText"))
          /\ UNCHANGED <<failedAt, faults>>
       \/ /\ CanFail
          /\ faults' = faults + 1
          /\ Throw(m, "sendText")
          /\ UNCHANGED sent
    /\ UNCHANGED <<store, inbound, locals, apologyAttempts, llmRequests, executed, returned>>

\* processMessage line 46: await this.saveMessage(conversation.id, null, aiResponse.message, 'OUTBOUND');
\* then return { success: true } and the controller's try block ends
SaveOutbound(m) ==
    /\ pc[m] = "saveOutbound"
    /\ \/ /\ messages' = Append(messages, NewMessage(conversation[m], "null", SavedReply(m), "OUTBOUND"))
          /\ Goto(m, NextStep("saveOutbound"))
          /\ UNCHANGED <<contacts, conversations, bookings, locals, observed, returned, faults>>
       \/ /\ CanFail
          /\ faults' = faults + 1
          /\ Throw(m, "saveOutbound")
          /\ UNCHANGED <<store, locals, sent, apologyAttempts, llmRequests, executed, returned>>
    /\ UNCHANGED inbound

\* a fallback whose own failure nothing catches
NoInnerCatch(m) == Goto(m, "UNHANDLED")

\* handleTextMessageAsync lines 278-282: catch (sendError) logs, finally logs,
\* and the promise of handleTextMessageAsync resolves
InnerCatch(m) == Goto(m, "FAILED")

\* handleTextMessageAsync catch block, line 272: await WahaService.stopTyping(chatId);
\* a rejection is caught by the inner catch at line 278
FallbackStopTyping(m) ==
    /\ pc[m] = "fb_stopTyping"
    /\ \/ /\ Goto(m, "fb_sendText")
          /\ UNCHANGED faults
       \/ /\ CanFail
          /\ faults' = faults + 1
          /\ InnerCatch(m)
    /\ UNCHANGED <<store, inbound, locals, observed, returned>>

\* handleTextMessageAsync catch block, lines 273-276: await WahaService.sendText(chatId, apology)
FallbackSendText(m) ==
    /\ pc[m] = "fb_sendText"
    /\ apologyAttempts' = [apologyAttempts EXCEPT ![m] = @ + 1]
    /\ \/ /\ sent' = [sent EXCEPT ![m] = Append(@, ApologyText)]
          /\ Goto(m, "FAILED")
          /\ UNCHANGED faults
       \/ /\ CanFail
          /\ faults' = faults + 1
          /\ InnerCatch(m)
          /\ UNCHANGED sent
    /\ UNCHANGED <<store, inbound, locals, llmRequests, executed, returned, failedAt>>

Next ==
    \E m \in Msgs :
        \/ StartTyping(m)
        \/ FindContact(m)
        \/ GetContact(m)
        \/ CreateContact(m)
        \/ TouchContact(m)
        \/ FindConversation(m)
        \/ CreateConversation(m)
        \/ SaveInbound(m)
        \/ GetHistory(m)
        \/ CallAI(m)
        \/ CreateBookingFind(m)
        \/ CreateBookingCreate(m)
        \/ CreateBookingUpdate(m)
        \/ UpdateContactInfo(m)
        \/ FollowUp(m)
        \/ StopTyping(m)
        \/ SendText(m)
        \/ SaveOutbound(m)
        \/ FallbackStopTyping(m)
        \/ FallbackSendText(m)

Spec == Init /\ [][Next]_vars

\* every await of the code is on a call that returns or fails, and the event
\* loop resumes it: a pipeline that can take a step takes one
SpecLive == Init /\ [][Next]_vars /\ WF_vars(Next)

\* ------------------------------------------------------------------ long conversations
\* how many Message rows the conversation holds before the event arrives
MaxPrior == 11

\* logs earlier runs can leave: every OUTBOUND row follows the INBOUND row of
\* its own run, so no prefix holds more OUTBOUND than INBOUND rows
PriorDirections ==
    UNION {{d \in [1..k -> {"INBOUND", "OUTBOUND"}] :
              \A n \in 1..k :
                  Cardinality({i \in 1..n : d[i] = "OUTBOUND"})
                      <= Cardinality({i \in 1..n : d[i] = "INBOUND"})} : k \in 0..MaxPrior}

\* the rows saveMessage wrote for those runs, one clock tick each
PriorLog(d) ==
    [i \in 1..Len(d) |->
        [conversationId |-> 1,
         messageId |-> IF d[i] = "INBOUND" THEN "old" ELSE "null",
         content |-> <<RoleOf(d[i]), ToString(i)>>,
         direction |-> d[i], status |-> StatusOf(d[i]), timestamp |-> i]]

\* event m1 of a known contact with an active conversation, resumed at
\* processMessage step 3
HistoryInit ==
    /\ contacts = <<NewContact(PhoneNumber(ChatA), "pushname", "m1")>>
    /\ conversations = <<NewConversation(1)>>
    /\ messages \in {PriorLog(d) : d \in PriorDirections}
    /\ bookings = <<>>
    /\ request = [m \in Msgs |-> TextEvent(m)]
    /\ response = [m \in Msgs |-> <<ProcessingResponse>>]
    /\ chatId = [m \in Msgs |-> ChatA]
    /\ pc = [m \in Msgs |-> IF m = "m1" THEN NextStep("conversation") ELSE "DONE"]
    /\ contact = [m \in Msgs |-> IF m = "m1" THEN 1 ELSE 0]
    /\ conversation = [m \in Msgs |-> IF m = "m1" THEN 1 ELSE 0]
    /\ messageHistory = [m \in Msgs |-> <<>>]
    /\ toolCalls = [m \in Msgs |-> <<>>]
    /\ callIdx = [m \in Msgs |-> 0]
    /\ aiMessage = [m \in Msgs |-> NoText]
    /\ local = [m \in Msgs |-> "none"]
    /\ sent = [m \in Msgs |-> <<>>]
    /\ apologyAttempts = [m \in Msgs |-> 0]
    /\ llmRequests = [m \in Msgs |-> 0]
    /\ executed = [m \in Msgs |-> <<>>]
    /\ results = [m \in Msgs |-> <<>>]
    /\ onceStore = [m \in Msgs |-> NoStore]
    /\ failedAt = [m \in Msgs |-> "none"]
    /\ faults = 0

HistoryNext ==
    \E m \in Msgs :
        \/ SaveInbound(m)
        \/ GetHistory(m)

SpecHistory == HistoryInit /\ [][HistoryNext]_vars

\* ------------------------------------------------------------------ reading the history twice
\* how many Message rows the table holds
MaxStored == 4

\* the orders in which a table can hold k rows written at the instants 1..k:
\* the rows' ids are cuids (schema line 49), so the table's own order is not
\* the order of the timestamps
StoredOrders(k) == {o \in [1..k -> 1..k] : \A i, j \in 1..k : o[i] = o[j] => i = j}

\* Message tables of two conversations; the row written at instant t is
\* INBOUND when t is odd, as saveMessage wrote it
StoredLogs ==
    UNION {{[i \in 1..k |->
                [conversationId |-> c[i],
                 messageId |-> IF o[i] % 2 = 1 THEN "old" ELSE "null",
                 content |-> <<RoleOf(IF o[i] % 2 = 1 THEN "INBOUND" ELSE "OUTBOUND"), ToString(o[i])>>,
                 direction |-> IF o[i] % 2 = 1 THEN "INBOUND" ELSE "OUTBOUND",
                 status |-> StatusOf(IF o[i] % 2 = 1 THEN "INBOUND" ELSE "OUTBOUND"),
                 timestamp |-> o[i]]] :
              o \in StoredOrders(k), c \in [1..k -> {1, 2}]} : k \in 0..MaxStored}

\* two runs of one conversation, both resumed at processMessage step 4: no
\* step of either writes
ReadInit ==
    /\ contacts = << NewContact(PhoneNumber(ChatA), "pushname", "old"),
                     NewContact(PhoneNumber(ChatB), "pushname", "old") >>
    /\ conversations = <<NewConversation(1), NewConversation(2)>>
    /\ messages \in StoredLogs
    /\ bookings = <<>>
    /\ request = [m \in Msgs |-> TextEvent(m)]
    /\ response = [m \in Msgs |-> <<ProcessingResponse>>]
    /\ chatId = [m \in Msgs |-> ChatA]
    /\ pc = [m \in Msgs |-> "getHistory"]
    /\ contact = [m \in Msgs |-> 1]
    /\ conversation = [m \in Msgs |-> 1]
    /\ messageHistory = [m \in Msgs |-> <<>>]
    /\ toolCalls = [m \in Msgs |-> <<>>]
    /\ callIdx = [m \in Msgs |-> 0]
    /\ aiMessage = [m \in Msgs |-> NoText]
    /\ local = [m \in Msgs |-> "none"]
    /\ sent = [m \in Msgs |-> <<>>]
    /\ apologyAttempts = [m \in Msgs |-> 0]
    /\ llmRequests = [m \in Msgs |-> 0]
    /\ executed = [m \in Msgs |-> <<>>]
    /\ results = [m \in Msgs |-> <<>>]
    /\ onceStore = [m \in Msgs |-> NoStore]
    /\ failedAt = [m \in Msgs |-> "none"]
    /\ faults = 0

ReadNext == \E m \in Msgs : GetHistory(m)

SpecRead == ReadInit /\ [][ReadNext]_vars

\* ------------------------------------------------------------------ actions on a filled store
\* how many Booking rows the store holds before the event arrives
MaxBookings == 2

\* req.body of an event that is no message
StatusEvent(id) ==
    [event |-> "session.status", id |-> id, body |-> EmptyBody,
     fromMe |-> FALSE, hasMedia |-> FALSE]

\* the Booking rows earlier runs can leave for contacts 1 and 2: createBooking
\* inserts them, updateBookingStatus gives them any status
PriorBookings ==
    UNION {[1..k -> [contactId : {1, 2}, serviceName : {"Boda espiritual"},
                     dateTime : {"2025-07-26"}, status : BookingStatus,
                     notes : {<<>>}]] : k \in 0..MaxBookings}

\* the ids a call can name for a booking
BookingIds == {IdString(b) : b \in 1..MaxBookings} \cup {MissingId}

\* calls that are made twice in a row
RepeatedCalls(contactId) ==
    { createBookingCall(contactId, "2025-07-26"),
      updateBookingStatusCall(contactId, IdString(1), "CANCELLED"),
      updateBookingStatusNotesCall(contactId, IdString(1), "CONFIRMED", "pagado"),
      analyzeCustomerIntentCall(contactId, "LEAD", 70),
      updateContactInfoCall(contactId, << <<"status", "LEAD">> >>),
      getContactBookingsCall(contactId),
      addContactNotesCall(contactId, "vip") }

\* what the first chat completion may hold in message.tool_calls for a contact
\* with bookings: every tool, with ids that exist, that are another contact's
\* and that do not exist, and names that are no tool
ActionResponses(contactId, conversationId) ==
    { <<>>,
      << analyzeCustomerIntentCall(contactId, "LEAD", 70) >>,
      << analyzeCustomerIntentCall(MissingId, "LEAD", 70) >>,
      << analyzeCustomerIntentCall(IdString(2), "LEAD", 70) >>,
      << createBookingCall(contactId, "2025-07-26") >>,
      << createBookingCall(contactId, "el sabado") >>,
      << createBookingCall(MissingId, "2025-07-26") >>,
      << updateBookingStatusNotesCall(contactId, IdString(1), "CONFIRMED", "pagado") >>,
      << updateContactInfoCall(contactId, << <<"status", "LEAD">> >>) >>,
      << updateContactInfoCall(MissingId, << <<"name", "Ana">> >>) >>,
      << getContactBookingsCall(contactId) >>,
      << getContactBookingsCall(MissingId) >>,
      << addContactNotesCall(contactId, "vip") >>,
      << addContactNotesCall(MissingId, "vip") >>,
      << analyzeCustomerIntentCall(contactId, "LEAD", 150) >>,
      << analyzeCustomerIntentShortCall(contactId, "LEAD", 70) >>,
      << createBookingServiceFirstCall(contactId, "2025-07-26") >>,
      << updateContactInfoCall(contactId, << <<"leadScore", 0 - 5>> >>) >>,
      << addContactNotesCall(contactId, "vip"),
         updateContactInfoCall(contactId, << <<"notes", "nuevo">> >>) >>,
      << saveMessageCall(conversationId, <<"forged", "text">>) >>,
      << saveMessageCall(MissingId, <<"forged", "text">>) >>,
      << sendEmailCall >>,
      << ToolCall("createBooking", BadJson) >>,
      << addContactNotesCall(contactId, "vip"), ToolCall("createBooking", BadJson) >> }
    \cup {<< updateBookingStatusCall(contactId, b, status) >> :
             b \in BookingIds, status \in BookingStatus}
    \cup {<<call, call>> : call \in RepeatedCalls(contactId)}

\* event m1 of contact 1, whose conversation is active, resumed at
\* processMessage step 5; contact 2 has no conversation; m2 was no message
ActionsInit ==
    /\ \E status \in {"PROSPECT", "OPPORTUNITY"} :
          contacts = << [NewContact(PhoneNumber(ChatA), "pushname", "m1") EXCEPT !.status = status],
                        NewContact(PhoneNumber(ChatB), "pushname", "old") >>
    /\ conversations = <<NewConversation(1)>>
    /\ messages = <<[conversationId |-> 1, messageId |-> "m1", content |-> UserText("m1"),
                     direction |-> "INBOUND", status |-> StatusOf("INBOUND"), timestamp |-> 1]>>
    /\ bookings \in PriorBookings
    /\ request = [m \in Msgs |-> IF m = "m1" THEN TextEvent(m) ELSE StatusEvent(m)]
    /\ response = [m \in Msgs |-> IF m = "m1" THEN <<ProcessingResponse>> ELSE <<GenericResponse>>]
    /\ chatId = [m \in Msgs |-> ChatA]
    /\ pc = [m \in Msgs |-> IF m = "m1" THEN NextStep("getHistory") ELSE "IGNORED"]
    /\ contact = [m \in Msgs |-> IF m = "m1" THEN 1 ELSE 0]
    /\ conversation = [m \in Msgs |-> IF m = "m1" THEN 1 ELSE 0]
    /\ messageHistory = [m \in Msgs |-> IF m = "m1" THEN getMessageHistory(messages, 1) ELSE <<>>]
    /\ toolCalls = [m \in Msgs |-> <<>>]
    /\ callIdx = [m \in Msgs |-> 0]
    /\ aiMessage = [m \in Msgs |-> NoText]
    /\ local = [m \in Msgs |-> "none"]
    /\ sent = [m \in Msgs |-> <<>>]
    /\ apologyAttempts = [m \in Msgs |-> 0]
    /\ llmRequests = [m \in Msgs |-> 0]
    /\ executed = [m \in Msgs |-> <<>>]
    /\ results = [m \in Msgs |-> <<>>]
    /\ onceStore = [m \in Msgs |-> NoStore]
    /\ failedAt = [m \in Msgs |-> "none"]
    /\ faults = 0

ActionsCallAI(m) ==
    CallAIWith(m, ActionResponses(IdString(contact[m]), IdString(conversation[m])))

ActionsNext ==
    \E m \in Msgs :
        \/ ActionsCallAI(m)
        \/ AnalyzeFindContact(m)
        \/ AnalyzeFindConversation(m)
        \/ AnalyzeUpdateContact(m)
        \/ AnalyzeUpdateConversation(m)
        \/ CreateBookingFind(m)
        \/ CreateBookingCreate(m)
        \/ CreateBookingUpdate(m)
        \/ UpdateBookingFind(m)
        \/ UpdateBookingUpdate(m)
        \/ UpdateBookingSetCustomer(m)
        \/ UpdateBookingCount(m)
        \/ UpdateBookingSetLead(m)
        \/ UpdateContactInfo(m)
        \/ GetBookingsFindContact(m)
        \/ GetBookingsFindMany(m)
        \/ AddNotesFindContact(m)
        \/ AddNotesUpdate(m)
        \/ SaveMessageByToolCall(m)
        \/ NotAFunction(m)
        \/ FollowUp(m)
        \/ StopTyping(m)
        \/ SendText(m)
        \/ SaveOutbound(m)
        \/ FallbackStopTyping(m)
        \/ FallbackSendText(m)

SpecActions == ActionsInit /\ [][ActionsNext]_vars

\* ------------------------------------------------------------------ two runs acting on one contact
\* what the first completions of two messages of one contact may ask for: the
\* cancellation of the contact's booking and a new booking
CascadeResponses(contactId) ==
    {<< updateBookingStatusCall(contactId, IdString(1), status) >> :
        status \in {"CANCELLED", "NO_SHOW"}}
    \cup {<< createBookingCall(contactId, "2025-07-26") >>}

\* two events of contact 1, who has one PENDING booking, both resumed at
\* processMessage step 5
CascadeInit ==
    /\ contacts = <<[NewContact(PhoneNumber(ChatA), "pushname", "old") EXCEPT !.status = "OPPORTUNITY"]>>
    /\ conversations = <<NewConversation(1)>>
    /\ messages = <<[conversationId |-> 1, messageId |-> "m1", content |-> UserText("m1"),
                     direction |-> "INBOUND", status |-> StatusOf("INBOUND"), timestamp |-> 1],
                    [conversationId |-> 1, messageId |-> "m2", content |-> UserText("m2"),
                     direction |-> "INBOUND", status |-> StatusOf("INBOUND"), timestamp |-> 2]>>
    /\ bookings = <<NewBooking(1, <<IdString(1), "Boda espiritual", "2025-07-26">>)>>
    /\ request = [m \in Msgs |-> TextEvent(m)]
    /\ response = [m \in Msgs |-> <<ProcessingResponse>>]
    /\ chatId = [m \in Msgs |-> ChatA]
    /\ pc = [m \in Msgs |-> NextStep("getHistory")]
    /\ contact = [m \in Msgs |-> 1]
    /\ conversation = [m \in Msgs |-> 1]
    /\ messageHistory = [m \in Msgs |-> getMessageHistory(messages, 1)]
    /\ toolCalls = [m \in Msgs |-> <<>>]
    /\ callIdx = [m \in Msgs |-> 0]
    /\ aiMessage = [m \in Msgs |-> NoText]
    /\ local = [m \in Msgs |-> "none"]
    /\ sent = [m \in Msgs |-> <<>>]
    /\ apologyAttempts = [m \in Msgs |-> 0]
    /\ llmRequests = [m \in Msgs |-> 0]
    /\ executed = [m \in Msgs |-> <<>>]
    /\ results = [m \in Msgs |-> <<>>]
    /\ onceStore = [m \in Msgs |-> NoStore]
    /\ failedAt = [m \in Msgs |-> "none"]
    /\ faults = 0

CascadeCallAI(m) == CallAIWith(m, CascadeResponses(IdString(contact[m])))

CascadeNext ==
    \E m \in Msgs :
        \/ CascadeCallAI(m)
        \/ UpdateBookingFind(m)
        \/ UpdateBookingUpdate(m)
        \/ UpdateBookingCount(m)
        \/ UpdateBookingSetLead(m)
        \/ CreateBookingFind(m)
        \/ CreateBookingCreate(m)
        \/ CreateBookingUpdate(m)
        \/ FollowUp(m)
        \/ StopTyping(m)
        \/ SendText(m)
        \/ SaveOutbound(m)
        \/ FallbackStopTyping(m)
        \/ FallbackSendText(m)

SpecCascade == CascadeInit /\ [][CascadeNext]_vars

\* ------------------------------------------------------------------ redelivery
\* the gateway delivered the webhook of message m1 twice: both requests carry
\* its payload, processWebhook has acknowledged both and started their pipelines
RedeliveryInit ==
    /\ contacts = <<>>
    /\ conversations = <<>>
    /\ messages = <<>>
    /\ bookings = <<>>
    /\ request = [m \in Msgs |-> TextEvent("m1")]
    /\ response = [m \in Msgs |-> <<ProcessingResponse>>]
    /\ chatId = [m \in Msgs |-> ChatA]
    /\ pc = [m \in Msgs |-> "startTyping"]
    /\ contact = [m \in Msgs |-> 0]
    /\ conversation = [m \in Msgs |-> 0]
    /\ messageHistory = [m \in Msgs |-> <<>>]
    /\ toolCalls = [m \in Msgs |-> <<>>]
    /\ callIdx = [m \in Msgs |-> 0]
    /\ aiMessage = [m \in Msgs |-> NoText]
    /\ local = [m \in Msgs |-> "none"]
    /\ sent = [m \in Msgs |-> <<>>]
    /\ apologyAttempts = [m \in Msgs |-> 0]
    /\ llmRequests = [m \in Msgs |-> 0]
    /\ executed = [m \in Msgs |-> <<>>]
    /\ results = [m \in Msgs |-> <<>>]
    /\ onceStore = [m \in Msgs |-> NoStore]
    /\ failedAt = [m \in Msgs |-> "none"]
    /\ faults = 0

SpecRedelivery == RedeliveryInit /\ [][Next]_vars

\* ------------------------------------------------------------------ webhook requests of any kind
\* what req.body may hold for request m: a message or another event, with or
\* without text, sent by the account itself or not, with or without media
WebhookEvents(m) ==
    {[event |-> e, id |-> m, body |-> b, fromMe |-> f, hasMedia |-> h] :
        e \in {"message", "session.status"}, b \in {UserText(m), EmptyBody},
        f \in BOOLEAN, h \in BOOLEAN}

\* two requests have arrived from the same chat and processWebhook has run for neither
WebhookInit ==
    /\ contacts = <<>>
    /\ conversations = <<>>
    /\ messages = <<>>
    /\ bookings = <<>>
    /\ request \in {r \in [Msgs -> UNION {WebhookEvents(m) : m \in Msgs}] :
                       \A m \in Msgs : r[m] \in WebhookEvents(m)}
    /\ response = [m \in Msgs |-> <<>>]
    /\ chatId = [m \in Msgs |-> ChatA]
    /\ pc = [m \in Msgs |-> "webhook"]
    /\ contact = [m \in Msgs |-> 0]
    /\ conversation = [m \in Msgs |-> 0]
    /\ messageHistory = [m \in Msgs |-> <<>>]
    /\ toolCalls = [m \in Msgs |-> <<>>]
    /\ callIdx = [m \in Msgs |-> 0]
    /\ aiMessage = [m \in Msgs |-> NoText]
    /\ local = [m \in Msgs |-> "none"]
    /\ sent = [m \in Msgs |-> <<>>]
    /\ apologyAttempts = [m \in Msgs |-> 0]
    /\ llmRequests = [m \in Msgs |-> 0]
    /\ executed = [m \in Msgs |-> <<>>]
    /\ results = [m \in Msgs |-> <<>>]
    /\ onceStore = [m \in Msgs |-> NoStore]
    /\ failedAt = [m \in Msgs |-> "none"]
    /\ faults = 0

\* a handler that starts the pipeline and writes no response
AcknowledgeNever(m, body) == UNCHANGED response

\* res.status(200).json(body), lines 194 and 207
Acknowledge(m, body) == response' = [response EXCEPT ![m] = Append(@, body)]

\* processWebhook, lines 165-212: a text message is acknowledged and
\* handleTextMessageAsync is called without await (it runs up to its first
\* await, startTyping); anything else gets the generic acknowledgement
ProcessWebhook(m) ==
    /\ pc[m] = "webhook"
    /\ IF IsTextMessage(request[m])
       THEN /\ Acknowledge(m, ProcessingResponse)
            /\ Goto(m, "startTyping")
       ELSE /\ Acknowledge(m, GenericResponse)
            /\ Goto(m, "IGNORED")
    /\ UNCHANGED <<store, request, chatId, locals, observed, returned, faults>>

WebhookNext ==
    \/ \E m \in Msgs : ProcessWebhook(m)
    \/ Next

SpecWebhook == WebhookInit /\ [][WebhookNext]_vars

\* ------------------------------------------------------------------ observations
Range(seq) == {seq[i] : i \in 1..Len(seq)}

ReplyTexts(m) == {DirectText(m), FollowUpText(m)}

\* the OUTBOUND rows written by the pipeline of m
OutboundRows(m) ==
    {i \in Ids(messages) :
        messages[i].direction = "OUTBOUND" /\ messages[i].content \in ReplyTexts(m)}

\* the INBOUND rows holding event m
InboundRows(m) ==
    {i \in Ids(messages) :
        /\ messages[i].direction = "INBOUND"
        /\ messages[i].messageId = request[m].id
        /\ messages[i].content = request[m].body}

ContactsWithPhone(phone) == {i \in Ids(contacts) : contacts[i].phoneNumber = phone}

IsPrefix(a, b) == Len(a) <= Len(b) /\ SubSeq(b, 1, Len(a)) = a

\* a sendText call of the pipeline of m was rejected by the gateway
SendTextFailed(m) ==
    \/ failedAt[m] = "sendText"
    \/ pc[m] = "FAILED" /\ apologyAttempts[m] = 1 /\ ApologyText \notin Range(sent[m])

\* processMessage has returned to the controller, with success or not
ProcessMessageReturned(m) == pc[m] \in Terminal \cup {"fb_stopTyping", "fb_sendText"}

\* the first completion of m came back with text and no tool call
DirectReply(m) == aiMessage[m] = DirectText(m)

\* ------------------------------------------------------------------ claims

\* C1: for every inbound message at most one sendText call succeeds (the model
\* reply or the apology, never both), whatever store, LLM or gateway call fails.
C1_AtMostOneTextDelivered ==
    \A m \in Msgs : Len(sent[m]) <= 1

\* C2: provided no sendText call is rejected, a pipeline that has ended has
\* sent some text (reply or apology) to the user, whatever else failed.
C2_SomeTextWhenSendTextWorks ==
    \A m \in Msgs :
        (pc[m] \in Terminal /\ ~SendTextFailed(m)) => Len(sent[m]) >= 1

\* C3: when the LLM call, the parsing of tool arguments or an action fails, the
\* pipeline ends FAILED with exactly one apology sendText attempted, the model
\* reply never sent and no OUTBOUND row written.
C3_FailureSendsOneApology ==
    \A m \in Msgs :
        (pc[m] = "FAILED" /\ failedAt[m] \in {"llm", "parse", "action"}) =>
            /\ apologyAttempts[m] = 1
            /\ Range(sent[m]) \cap ReplyTexts(m) = {}
            /\ OutboundRows(m) = {}

\* C4: in every reachable state each Contact has at most one Conversation with
\* isActive = true.
C4_OneActiveConversation ==
    \A c \in Ids(contacts) : Cardinality(ActiveConversations(c)) <= 1

\* C5: in every reachable state no two Contact rows share a phone number, and a
\* pipeline that resolved its contact finds exactly one row for its phone.
C5_PhoneUnique ==
    /\ \A i, j \in Ids(contacts) :
          contacts[i].phoneNumber = contacts[j].phoneNumber => i = j
    /\ \A m \in Msgs :
          contact[m] # 0 =>
              ContactsWithPhone(PhoneNumber(chatId[m])) = {contact[m]}

\* C5 witness: two pipelines of one chat identity both ran the create, and the
\* table holds one row
C5_Witness ==
    /\ chatId["m1"] = chatId["m2"]
    /\ failedAt["m2"] = "duplicateContact"
    /\ contact["m1"] # 0
    /\ Len(contacts) = 1

\* C6: two resolve calls racing on one unknown phone both succeed: no pipeline
\* fails on the duplicate-key rejection of its insert.
C6_NoPipelineFailsOnDuplicate ==
    \A m \in Msgs : failedAt[m] # "duplicateContact"

\* C7: with N >= 1 tool calls and no failure, the N actions run in the order
\* returned, then exactly one follow-up request is made, and exactly one
\* OUTBOUND row is persisted.
C7_ToolCallsThenOneFollowUp ==
    \A m \in Msgs :
        /\ IsPrefix(executed[m], toolCalls[m])
        /\ llmRequests[m] <= 2
        /\ llmRequests[m] = 2 => (HasToolCalls(toolCalls[m]) /\ executed[m] = toolCalls[m])
        /\ (pc[m] = "DONE" /\ HasToolCalls(toolCalls[m])) =>
              /\ executed[m] = toolCalls[m]
              /\ llmRequests[m] = 2
              /\ Cardinality(OutboundRows(m)) = 1
              /\ sent[m] = <<FollowUpText(m)>>

\* C7 witness: a run with two tool calls ended DONE
C7_Witness ==
    \E m \in Msgs : pc[m] = "DONE" /\ Len(toolCalls[m]) = 2 /\ Len(executed[m]) = 2

C9_InboundBeforeLLM ==
    \A m \in Msgs :
        (llmRequests[m] >= 1 \/ pc[m] = "callAI") => InboundRows(m) # {}

\* C9 witness: the LLM request of a run failed and its inbound row is stored
C9_Witness ==
    \E m \in Msgs : pc[m] = "FAILED" /\ failedAt[m] = "llm" /\ InboundRows(m) # {}

\* the n rows with the largest timestamps, oldest first
MostRecent(rows, n) ==
    LET sorted == OrderByTimestampAsc(rows)
    IN  SubSeq(sorted, IF Len(sorted) > n THEN Len(sorted) - n + 1 ELSE 1, Len(sorted))

\* C10: the history loaded for a run is, in ascending timestamp order, the 10
\* most recent Messages of the conversation (all of them when it has fewer).
C10_HistoryIsNewestTen ==
    \A m \in Msgs :
        pc[m] = "callAI" =>
            LET newest == MostRecent(RowsOfConversation(messages, conversation[m]), HistoryLimit)
            IN  messageHistory[m] =
                    [i \in 1..Len(newest) |->
                        [role |-> RoleOf(newest[i].direction), content |-> newest[i].content]]

\* ------------------------------------------------------------------ claims about the actions
Last(seq) == seq[Len(seq)]

\* the loop of m has dispatched a call, the one it is at
Dispatched(m) == callIdx[m] > 0

CurrentCall(m) == toolCalls[m][callIdx[m]]

\* this step is the one in which the method called for m returns
ReturnsNow(m) == Len(results'[m]) = Len(results[m]) + 1

\* this step is made with every store, LLM and gateway call answering
NoFaultNow == faults' = faults

\* the steps inside the six tools
RegistrySteps ==
    {"aci_findContact", "aci_findConversation", "aci_updateContact", "aci_updateConversation",
     "cb_findContact", "cb_create", "cb_updateContact",
     "ubs_find", "ubs_update", "ubs_setCustomer", "ubs_count", "ubs_setLead",
     "uci_update", "gcb_findContact", "gcb_findMany", "acn_findContact", "acn_update"}

\* the steps the pipeline itself makes around the tool loop
PipelineSteps ==
    {"startTyping", "findContact", "getContact", "createContact", "touchContact",
     "findConversation", "createConversation", "saveInbound", "getHistory", "callAI",
     "followUp", "stopTyping", "sendText", "saveOutbound", "fb_stopTyping", "fb_sendText",
     "DONE", "FAILED", "IGNORED", "webhook"}

\* the Message rows the pipeline's own two saveMessage calls write: the
\* event's text with its id, and a reply with no id
PipelineRow(row) ==
    \/ row.direction = "INBOUND" /\ row.messageId \in Msgs \cup {"old"}
    \/ row.direction = "OUTBOUND" /\ row.messageId = "null"

\* C11: a tool call runs one of the six registry actions or nothing: while the
\* loop is at a call whose name is not in the registry no method of the service
\* is executing, and every Message row is one the pipeline itself wrote.
C11_OnlyRegistryActionsRun ==
    /\ \A m \in Msgs :
          (Dispatched(m) /\ CurrentCall(m).name \notin Registry)
              => pc[m] \in PipelineSteps \cup {"notAFunction"}
    /\ \A i \in Ids(messages) : PipelineRow(messages[i])

\* the contact, conversation or booking the call names is missing or is
\* another contact's, or its date does not parse
BadReference(call) ==
    LET args == Args(call) IN
    \/ FindById(contacts, args[1]) = 0
    \/ /\ call.name = "analyzeCustomerIntent"
       /\ FindActiveConversation(FindById(contacts, args[1])) = 0
    \/ /\ call.name = "createBooking"
       /\ ~DateParses(args[3])
    \/ /\ call.name = "updateBookingStatus"
       /\ \/ FindById(bookings, args[2]) = 0
          \/ IdString(bookings[FindById(bookings, args[2])].contactId) # args[1]

\* C12: with every external call answering, a registry action given a missing
\* or foreign reference or an invalid argument does not throw: the pipeline is
\* not aborted at the action, and when it ends it has sent the follow-up reply.
C12_BadReferenceIsRecovered ==
    \A m \in Msgs :
        (faults = 0 /\ Dispatched(m) /\ CurrentCall(m).name \in Registry
            /\ BadReference(CurrentCall(m)))
        => /\ failedAt[m] = "none"
           /\ pc[m] = "DONE" => sent[m] = <<FollowUpText(m)>>

\* createBooking was called with a dateTime that new Date cannot parse
UnparsableBooking(call) ==
    call.name = "createBooking" /\ ~DateParses(Args(call)[3])

\* C13: while createBooking runs with an unparsable dateTime no Booking and no
\* Contact changes, and when the date is reached (the contact exists, the store
\* answers) the method returns a failure result instead of throwing.
C13_UnparsableDateFailsWithoutWrite ==
    [][\A m \in Msgs :
          (Dispatched(m) /\ UnparsableBooking(CurrentCall(m)) /\ NoFaultNow)
          => /\ bookings' = bookings
             /\ contacts' = contacts
             /\ (pc[m] = "cb_create" /\ pc'[m] # "cb_create")
                    => (ReturnsNow(m) /\ ~Last(results'[m]).success)]_vars

\* the PENDING or CONFIRMED bookings of a contact
ActiveBookingsOf(contactId) ==
    {b \in Ids(bookings) :
        /\ IdString(bookings[b].contactId) = contactId
        /\ bookings[b].status \in {"PENDING", "CONFIRMED"}}

UpdatesBookingTo(call, statuses) ==
    call.name = "updateBookingStatus" /\ Args(call)[3] \in statuses

\* C14: while updateBookingStatus to CANCELLED or NO_SHOW runs, the only change
\* of a Contact.status is the owner's turning LEAD, made when the booking has
\* its new status and the owner has no PENDING or CONFIRMED booking; and when
\* the method returns success with no such booking left, the owner is LEAD.
C14_LeadExactlyWhenNoActiveBooking ==
    [][\A m \in Msgs :
          (Dispatched(m) /\ UpdatesBookingTo(CurrentCall(m), {"CANCELLED", "NO_SHOW"}))
          => LET args == Args(CurrentCall(m))
                 owner == FindById(contacts, args[1])
             IN  /\ \A c \in Ids(contacts) :
                        contacts'[c].status # contacts[c].status
                        => /\ c = owner
                           /\ contacts'[c].status = "LEAD"
                           /\ bookings[FindById(bookings, args[2])].status = args[3]
                           /\ ActiveBookingsOf(args[1]) = {}
                 /\ (ReturnsNow(m) /\ Last(results'[m]).success /\ ActiveBookingsOf(args[1])' = {})
                        => contacts'[owner].status = "LEAD"]_vars

\* C14 witness: a cancellation returned success for a contact with two
\* bookings, the other one COMPLETED, and the contact is LEAD
C14_Witness ==
    \E m \in Msgs :
        /\ pc[m] = "followUp"
        /\ Len(toolCalls[m]) = 1
        /\ UpdatesBookingTo(toolCalls[m][1], {"CANCELLED"})
        /\ results[m] = <<[success |-> TRUE, error |-> "none"]>>
        /\ Len(bookings) = 2
        /\ \A b \in Ids(bookings) : bookings[b].contactId = contact[m]
        /\ \E b \in Ids(bookings) : bookings[b].status = "COMPLETED"
        /\ contacts[contact[m]].status = "LEAD"

\* C15: the step in which updateBookingStatus to COMPLETED returns success
\* leaves the owner's Contact.status CUSTOMER, whatever it was and whatever
\* the contact's other bookings are.
C15_CompletedMakesCustomer ==
    [][\A m \in Msgs :
          (Dispatched(m) /\ UpdatesBookingTo(CurrentCall(m), {"COMPLETED"})
              /\ ReturnsNow(m) /\ Last(results'[m]).success)
          => contacts'[FindById(contacts, Args(CurrentCall(m))[1])].status = "CUSTOMER"]_vars

\* C15 witness: a completion returned success for a contact that still has a
\* PENDING booking, and the contact is CUSTOMER
C15_Witness ==
    \E m \in Msgs :
        /\ pc[m] = "followUp"
        /\ Len(toolCalls[m]) = 1
        /\ UpdatesBookingTo(toolCalls[m][1], {"COMPLETED"})
        /\ results[m] = <<[success |-> TRUE, error |-> "none"]>>
        /\ \E b \in Ids(bookings) :
              bookings[b].contactId = contact[m] /\ bookings[b].status = "PENDING"
        /\ contacts[contact[m]].status = "CUSTOMER"

\* C16: updateBookingStatus returns, in one step that changes no Booking and
\* no Contact, the not-found failure for a bookingId that does not exist and
\* the not-yours failure for a booking of another contact; and a Booking
\* changes only under a call that names it with its owner's contactId.
C16_MissingOrForeignBookingUntouched ==
    [][/\ \A m \in Msgs :
             (Dispatched(m) /\ CurrentCall(m).name = "updateBookingStatus" /\ ReturnsNow(m))
             => LET args == Args(CurrentCall(m))
                    b == FindById(bookings, args[2])
                IN  /\ b = 0 => /\ Last(results'[m]) =
                                      [success |-> FALSE, error |-> "Reserva no encontrada"]
                                /\ bookings' = bookings /\ contacts' = contacts
                    /\ (b # 0 /\ IdString(bookings[b].contactId) # args[1])
                          => /\ Last(results'[m]) =
                                   [success |-> FALSE,
                                    error |-> "Esta reserva no pertenece al contacto indicado"]
                             /\ bookings' = bookings /\ contacts' = contacts
       /\ \A b \in Ids(bookings) :
             bookings'[b] # bookings[b]
             => \E m \in Msgs :
                   /\ Dispatched(m)
                   /\ CurrentCall(m).name = "updateBookingStatus"
                   /\ Args(CurrentCall(m))[2] = IdString(b)
                   /\ Args(CurrentCall(m))[1] = IdString(bookings[b].contactId)]_vars

\* C16 witness: a call naming a booking of contact 2 with contact 1's id has
\* returned the not-yours failure
C16_Witness ==
    \E m \in Msgs :
        /\ pc[m] = "followUp"
        /\ Len(toolCalls[m]) = 1
        /\ toolCalls[m][1].name = "updateBookingStatus"
        /\ FindById(bookings, Args(toolCalls[m][1])[2]) # 0
        /\ bookings[FindById(bookings, Args(toolCalls[m][1])[2])].contactId # contact[m]
        /\ results[m] = <<[success |-> FALSE,
                           error |-> "Esta reserva no pertenece al contacto indicado"]>>

\* the statuses the spec's state machine ends in
TerminalStatuses == {"COMPLETED", "CANCELLED", "NO_SHOW"}

\* C17: no step changes the status of a Booking that is COMPLETED, CANCELLED
\* or NO_SHOW, and no step gives a Booking the status PENDING that it did not
\* already have.
C17_TerminalStatusIsFinal ==
    [][\A b \in Ids(bookings) :
          /\ bookings[b].status \in TerminalStatuses
                => bookings'[b].status = bookings[b].status
          /\ bookings'[b].status = "PENDING" => bookings[b].status = "PENDING"]_vars

\* the call appends a line of notes, to the contact or to the booking
AppendsNotes(call) ==
    \/ call.name = "addContactNotes"
    \/ call.name = "updateBookingStatus" /\ Len(Args(call)) >= 4

\* C18: when an action that appends no notes has been invoked twice in a row
\* with identical arguments, Contacts, Conversations and Bookings are as the
\* first invocation left them.
C18_SecondInvocationChangesNothing ==
    \A m \in Msgs :
        (pc[m] = "followUp" /\ Len(toolCalls[m]) = 2 /\ Len(results[m]) = 2
            /\ toolCalls[m][1] = toolCalls[m][2] /\ ~AppendsNotes(toolCalls[m][1]))
        => <<contacts, conversations, bookings>> = onceStore[m]

\* the INBOUND rows that hold an external message id
InboundRowsWithId(id) ==
    {i \in Ids(messages) : messages[i].direction = "INBOUND" /\ messages[i].messageId = id}

\* C19: however often the webhook of a message is delivered, the log holds at
\* most one INBOUND row with its external message id.
C19_OneInboundRowPerMessageId ==
    \A id \in Msgs : Cardinality(InboundRowsWithId(id)) <= 1

\* the event of request m is a text message of somebody else without media
PlainTextFromOther(m) ==
    /\ request[m].event = "message"
    /\ request[m].body # <<>>
    /\ request[m].fromMe = FALSE
    /\ request[m].hasMedia = FALSE

\* nothing in the store or at the gateway or LLM stems from request m
NoTraceOf(m) ==
    /\ InboundRows(m) = {}
    /\ OutboundRows(m) = {}
    /\ \A i \in Ids(contacts) : contacts[i].lastContactAt # m
    /\ sent[m] = <<>> /\ apologyAttempts[m] = 0 /\ llmRequests[m] = 0

\* C20: once processWebhook has run for a request, its pipeline is started if
\* and only if the event is a 'message' with a non-empty body, fromMe false
\* and hasMedia false; any other request has the generic 200 response as its
\* only response, leaves no trace, and if no request qualified the store is empty.
C20_OnlyPlainTextStartsThePipeline ==
    /\ \A m \in Msgs :
          pc[m] # "webhook"
          => /\ pc[m] # "IGNORED" <=> PlainTextFromOther(m)
             /\ ~PlainTextFromOther(m)
                   => /\ response[m] =
                            <<[status |-> 200,
                               message |-> "Webhook received but not processed (not a text message)"]>>
                      /\ NoTraceOf(m)
    /\ (\A m \in Msgs : pc[m] = "IGNORED")
          => contacts = <<>> /\ conversations = <<>> /\ messages = <<>> /\ bookings = <<>>

\* C20 witness: a text the account itself sent was ignored while the other
\* request's pipeline ran to its end
C20_Witness ==
    \E m, n \in Msgs :
        /\ pc[m] = "IGNORED"
        /\ request[m].event = "message" /\ request[m].body # <<>> /\ request[m].fromMe
        /\ pc[n] = "DONE"

\* ------------------------------------------------------------------ claims about the controller
\* the pipeline of m has made no step yet
NotBegun(m) ==
    /\ pc[m] \in {"webhook", "startTyping"}
    /\ failedAt[m] = "none"
    /\ NoTraceOf(m)

\* C21: a request has no response while processWebhook has not run for it and
\* exactly one afterwards, whatever its pipeline does later; for an accepted
\* text event that response is the 200 acknowledgement, and it is there
\* while the pipeline has not made its first step.
C21_AcknowledgedOnceBeforePipeline ==
    \A m \in Msgs :
        /\ pc[m] = "webhook" => (response[m] = <<>> /\ NotBegun(m))
        /\ pc[m] # "webhook" => Len(response[m]) = 1
        /\ (pc[m] # "webhook" /\ PlainTextFromOther(m))
              => response[m] = <<[status |-> 200,
                                  message |-> "Webhook received, processing text message"]>>

\* C21 witness: the pipeline of an acknowledged event failed and the
\* acknowledgement is its request's only response
C21_Witness ==
    \E m \in Msgs :
        /\ pc[m] = "FAILED"
        /\ failedAt[m] = "llm"
        /\ Len(response[m]) = 1
        /\ response[m][1].status = 200

\* every place a pipeline can be at; a rejection nothing handles is none of them
KnownSteps == PipelineSteps \cup RegistrySteps \cup {"sm_create", "notAFunction"}

\* C22: whatever fails, a pipeline is always at a step of the code (no
\* rejection leaves handleTextMessageAsync), a failure inside processMessage
\* has been returned to the controller's catch, and the step in which one
\* pipeline fails changes nothing of the other pipeline.
C22_NoFailureEscapes ==
    /\ [](\A m \in Msgs :
             /\ pc[m] \in KnownSteps
             /\ failedAt[m] # "none" => pc[m] \in {"fb_stopTyping", "fb_sendText", "FAILED"})
    /\ [][\A m, n \in Msgs :
             (m # n /\ (failedAt'[m] # failedAt[m] \/ (pc'[m] = "FAILED" /\ pc[m] # "FAILED")))
             => /\ pc'[n] = pc[n]
                /\ failedAt'[n] = failedAt[n]
                /\ sent'[n] = sent[n]]_vars

\* C22 witness: one contact's pipeline failed and so did its apology, and the
\* pipeline of another contact ended with its reply sent
C22_Witness ==
    \E m, n \in Msgs :
        /\ chatId[m] # chatId[n]
        /\ pc[m] = "FAILED" /\ apologyAttempts[m] = 1 /\ sent[m] = <<>>
        /\ pc[n] = "DONE" /\ Len(sent[n]) = 1

\* callAI line 589: JSON.stringify(aiChoice.message.tool_calls, null, 2), the
\* text put in the system and assistant messages of the follow-up request
\* (lines 611, 632-637): per call its name and its arguments text
toolCallsStringLog(m) ==
    [i \in 1..Len(toolCalls[m]) |->
        [name |-> toolCalls[m][i].name, arguments |-> toolCalls[m][i].arguments]]

\* C23: once the follow-up request is issued, its record of actions holds, for
\* every executed action, the invocation and the result the action returned.
C23_FollowUpCarriesResults ==
    \A m \in Msgs :
        llmRequests[m] = 2 =>
            /\ Len(toolCallsStringLog(m)) = Len(executed[m])
            /\ \A i \in 1..Len(executed[m]) :
                  /\ toolCallsStringLog(m)[i].name = executed[m][i].name
                  /\ toolCallsStringLog(m)[i].arguments = executed[m][i].arguments
                  /\ "result" \in DOMAIN toolCallsStringLog(m)[i]
                  /\ toolCallsStringLog(m)[i].result = results[m][i]

\* ------------------------------------------------------------------ claims about the contact's fields
\* C24: the lead score of every contact is within 0..100 in every state.
C24_LeadScoreWithinRange ==
    \A c \in Ids(contacts) : contacts[c].leadScore \in 0..100

\* ------------------------------------------------------------------ claims about ordering
\* the history the pipeline of later loaded holds the text of earlier and the
\* reply to it
Observes(later, earlier) ==
    /\ \E i \in DOMAIN messageHistory[later] :
          messageHistory[later][i] = [role |-> "user", content |-> UserText(earlier)]
    /\ \E i \in DOMAIN messageHistory[later] :
          messageHistory[later][i] = [role |-> "assistant", content |-> aiMessage[earlier]]

\* C25: of two messages of one contact that were both answered, one was
\* processed after the other: its history holds the other's INBOUND and
\* OUTBOUND rows.
C25_SameContactInArrivalOrder ==
    \A m, n \in Msgs :
        (m # n /\ chatId[m] = chatId[n] /\ pc[m] = "DONE" /\ pc[n] = "DONE")
        => (Observes(m, n) \/ Observes(n, m))

\* ------------------------------------------------------------------ claims about createBooking
\* createBooking was called with a dateTime that new Date parses
ParsableBooking(call) ==
    call.name = "createBooking" /\ DateParses(Args(call)[3])

\* C26: a createBooking call with a parsable date changes the bookings in one
\* step only, which appends one PENDING row owned by the contact named; when
\* it returns success that contact is OPPORTUNITY; for a contact that does not
\* exist it returns the not-found failure in a step that writes nothing.
C26_CreateBookingInsertsOnePending ==
    [][\A m \in Msgs :
          (Dispatched(m) /\ ParsableBooking(CurrentCall(m)) /\ pc[m] \in RegistrySteps)
          => LET args == Args(CurrentCall(m))
                 c == FindById(contacts, args[1])
             IN  /\ (pc[m] = "cb_create" /\ pc'[m] = "cb_updateContact")
                       => /\ c # 0
                          /\ Len(bookings') = Len(bookings) + 1
                          /\ SubSeq(bookings', 1, Len(bookings)) = bookings
                          /\ Last(bookings').status = "PENDING"
                          /\ Last(bookings').contactId = c
                          /\ Last(bookings').dateTime = args[3]
                          /\ contacts' = contacts
                 /\ ~(pc[m] = "cb_create" /\ pc'[m] = "cb_updateContact")
                       => bookings' = bookings
                 /\ (ReturnsNow(m) /\ c # 0)
                       => /\ pc[m] = "cb_updateContact"
                          /\ Last(results'[m]).success
                          /\ contacts'[c].status = "OPPORTUNITY"
                          /\ \A d \in Ids(contacts) : d # c => contacts'[d] = contacts[d]
                 /\ (ReturnsNow(m) /\ c = 0)
                       => /\ Last(results'[m]) =
                                [success |-> FALSE, error |-> "Contacto no encontrado"]
                          /\ contacts' = contacts /\ conversations' = conversations
                          /\ messages' = messages
                 /\ (c = 0 /\ pc'[m] \in RegistrySteps /\ ~ReturnsNow(m))
                       => pc'[m] = pc[m]]_vars

\* C26 witness: createBooking returned success, the contact is OPPORTUNITY and
\* the newest booking is its PENDING one
C26_Witness ==
    \E m \in Msgs :
        /\ pc[m] = "followUp"
        /\ Len(toolCalls[m]) = 1
        /\ ParsableBooking(toolCalls[m][1])
        /\ results[m] = <<[success |-> TRUE, error |-> "none"]>>
        /\ contacts[contact[m]].status = "OPPORTUNITY"
        /\ bookings # <<>>
        /\ Last(bookings).status = "PENDING" /\ Last(bookings).contactId = contact[m]

\* ------------------------------------------------------------------ claims about the notes
\* C27: in every step the notes a contact had are a prefix of the notes it has
\* afterwards.
C27_NotesAreAppendOnly ==
    [][\A c \in Ids(contacts) : IsPrefix(contacts[c].notes, contacts'[c].notes)]_vars

\* ------------------------------------------------------------------ claims about the reply
\* C28: when the sendText of the reply has failed, processMessage has returned
\* success: false (the controller is in its catch block or past it), the
\* INBOUND row of the message is in the store and no OUTBOUND row was written
\* for the reply.
C28_FailedSendKeepsInboundOnly ==
    \A m \in Msgs :
        failedAt[m] = "sendText" =>
            /\ pc[m] \in {"fb_stopTyping", "fb_sendText", "FAILED"}
            /\ InboundRows(m) # {}
            /\ OutboundRows(m) = {}
            /\ Range(sent[m]) \cap ReplyTexts(m) = {}

\* C28 witness: the reply was computed, its sendText failed and the run is over
C28_Witness ==
    \E m \in Msgs :
        /\ failedAt[m] = "sendText" /\ pc[m] = "FAILED"
        /\ aiMessage[m] \in ReplyTexts(m)
        /\ InboundRows(m) # {}

\* ------------------------------------------------------------------ claims about findOrCreateContact
\* C29: the step of findOrCreateContact that creates appends one PROSPECT row
\* for a phone no row had, and the step that refreshes changes, of all
\* contacts, only lastContactAt of the row found; its other steps change no
\* contact.
C29_ResolveCreatesProspectOrTouches ==
    [][\A m \in Msgs :
          /\ (pc[m] = "createContact" /\ pc'[m] = "findConversation")
                => /\ \A c \in Ids(contacts) : contacts[c].phoneNumber # PhoneNumber(chatId[m])
                   /\ Len(contacts') = Len(contacts) + 1
                   /\ SubSeq(contacts', 1, Len(contacts)) = contacts
                   /\ Last(contacts').status = "PROSPECT"
                   /\ Last(contacts').phoneNumber = PhoneNumber(chatId[m])
                   /\ contact'[m] = Len(contacts')
          /\ (pc[m] = "touchContact" /\ pc'[m] = "findConversation")
                => /\ contacts[contact[m]].phoneNumber = PhoneNumber(chatId[m])
                   /\ Len(contacts') = Len(contacts)
                   /\ \A c \in Ids(contacts) :
                         contacts'[c] = IF c = contact[m]
                                        THEN [contacts[c] EXCEPT
                                                 !.lastContactAt = contacts'[c].lastContactAt]
                                        ELSE contacts[c]
                   /\ contact'[m] = contact[m]
          /\ (pc[m] \in {"findContact", "getContact", "createContact", "touchContact"}
              /\ pc'[m] # pc[m] /\ pc'[m] # "findConversation")
                => contacts' = contacts]_vars

\* C29 witness: one message created the contact and a later one of the same
\* chat refreshed it
C29_Witness ==
    \E m, n \in Msgs :
        /\ m # n /\ contact[m] = contact[n] /\ contact[m] # 0
        /\ pc[m] = "DONE" /\ pc[n] = "findConversation"
        /\ contacts[contact[n]].status = "PROSPECT"
        /\ contacts[contact[n]].lastContactAt = n

\* C30: a getContact that fails during the first contact is not a failure of
\* the pipeline: the next step is the creation of the contact, which stores
\* the placeholder name.
C30_GetContactFailureIsNotFatal ==
    /\ [](\A m \in Msgs : failedAt[m] # "getContact")
    /\ [][\A m \in Msgs :
             /\ (pc[m] = "getContact" /\ pc'[m] # pc[m] /\ faults' # faults)
                   => /\ pc'[m] = "createContact"
                      /\ local'[m] = "Desconocido"
                      /\ failedAt'[m] = "none"
             /\ (pc[m] = "createContact" /\ pc'[m] = "findConversation")
                   => Last(contacts').name = local[m]]_vars

\* C30 witness: a contact created with the placeholder name was answered by
\* the model
C30_Witness ==
    \E m \in Msgs :
        /\ pc[m] = "DONE" /\ llmRequests[m] >= 1 /\ conversation[m] # 0
        /\ contacts[contact[m]].name = "Desconocido"
        /\ contacts[contact[m]].lastContactAt = m

\* ------------------------------------------------------------------ claims about the history read
\* the rows of the conversation of m that hold this content
RowsWithContent(m, content) ==
    {i \in Ids(messages) :
        messages[i].conversationId = conversation[m] /\ messages[i].content = content}

\* the history m loaded lists rows of its conversation, each once, by
\* strictly ascending timestamp, with the role of the row's direction
AscendingHistory(m) ==
    /\ \A i \in DOMAIN messageHistory[m] :
          \E r \in RowsWithContent(m, messageHistory[m][i].content) :
              messageHistory[m][i].role =
                  (IF messages[r].direction = "INBOUND" THEN "user" ELSE "assistant")
    /\ \A i, j \in DOMAIN messageHistory[m] :
          i < j => \A r \in RowsWithContent(m, messageHistory[m][i].content),
                      q \in RowsWithContent(m, messageHistory[m][j].content) :
                      messages[r].timestamp < messages[q].timestamp

C32_ArgumentsBoundByName ==
    \A m \in Msgs :
        (Dispatched(m) /\ CurrentCall(m).name \in Registry)
        => LET call == CurrentCall(m)
           IN  \A i \in 1..Len(call.arguments.pairs) :
                  /\ i <= Len(Parameters(call.name))
                  /\ Parameters(call.name)[i] = call.arguments.pairs[i][1]

\* ------------------------------------------------------------------ claims about persistence
\* C33: a run in which no store call was rejected does not end without the
\* INBOUND row of its message, whatever gateway or LLM call failed.
C33_AcceptedTextIsRecorded ==
    \A m \in Msgs :
        (pc[m] \in {"DONE", "FAILED"} /\ failedAt[m] \notin {"store", "duplicateContact"})
        => InboundRows(m) # {}

\* ------------------------------------------------------------------ claims about interleaved actions
\* C34: the step in which the cascade of a cancellation or no-show writes
\* Contact.status LEAD leaves the contact without a PENDING or CONFIRMED
\* booking, whatever another run did since the cascade counted.
C34_CascadeLeadMeansNoActiveBooking ==
    [][\A m \in Msgs :
          (/\ Dispatched(m)
           /\ UpdatesBookingTo(CurrentCall(m), {"CANCELLED", "NO_SHOW"})
           /\ pc[m] = "ubs_setLead" /\ ReturnsNow(m))
          => LET args == Args(CurrentCall(m))
             IN  contacts'[FindById(contacts, args[1])].status = "LEAD"
                    => ActiveBookingsOf(args[1])' = {}]_vars

\* ------------------------------------------------------------------ claims about the first request
SystemText == <<"system", "tools">>

\* callAI lines 566-570: messages of the first chat completion request; the
\* currentMessage argument is content (processMessage line 41)
FirstRequestMessages(m) ==
    <<[role |-> "system", content |-> SystemText]>>
    \o messageHistory[m]
    \o <<[role |-> "user", content |-> request[m].body]>>

\* C35: the messages of a run's first LLM request hold the new user message
\* exactly once.
C35_UserMessageOnceInFirstRequest ==
    \A m \in Msgs :
        llmRequests[m] >= 1 =>
            Cardinality({i \in DOMAIN FirstRequestMessages(m) :
                            FirstRequestMessages(m)[i] =
                                [role |-> "user", content |-> request[m].body]}) = 1

\* ------------------------------------------------------------------ claims about unparsable arguments
\* a call of the response of m has arguments JSON.parse rejects
HasUnparsable(calls) == \E i \in 1..Len(calls) : ~calls[i].arguments.ok

\* C36: when a tool call of the response has unparsable arguments, none of the
\* response's actions is executed, no follow-up request is made and the run is
\* on the failure path; the step that receives the response, and every later
\* step of that run, writes nothing.
C36_UnparsableArgumentsRunNothing ==
    /\ [](\A m \in Msgs :
             HasUnparsable(toolCalls[m])
             => /\ executed[m] = <<>>
                /\ results[m] = <<>>
                /\ llmRequests[m] = 1
                /\ failedAt[m] = "parse"
                /\ pc[m] \in {"fb_stopTyping", "fb_sendText", "FAILED"})
    /\ [][\A m \in Msgs :
             (HasUnparsable(toolCalls'[m]) /\ pc'[m] # pc[m])
             => /\ contacts' = contacts /\ bookings' = bookings
                /\ conversations' = conversations /\ messages' = messages]_vars

\* C36 witness: a response whose first call was well-formed and whose second
\* was not ended the run with the apology
C36_Witness ==
    \E m \in Msgs :
        /\ Len(toolCalls[m]) = 2
        /\ toolCalls[m][1].arguments.ok /\ ~toolCalls[m][2].arguments.ok
        /\ pc[m] = "FAILED" /\ sent[m] = <<ApologyText>>

\* ------------------------------------------------------------------ claims about the outbound row
\* C37: every OUTBOUND row holds a text that a sendText of a run of its
\* conversation delivered before; and a run reaches sendText only from
\* stopTyping and the OUTBOUND save only from sendText.
C37_OutboundOnlyAfterSend ==
    /\ [](\A i \in Ids(messages) :
             messages[i].direction = "OUTBOUND"
             => \E m \in Msgs :
                   /\ conversation[m] = messages[i].conversationId
                   /\ messages[i].content \in Range(sent[m]))
    /\ [][\A m \in Msgs :
             /\ (pc'[m] = "sendText" /\ pc[m] # "sendText") => pc[m] = "stopTyping"
             /\ (pc'[m] = "saveOutbound" /\ pc[m] # "saveOutbound") => pc[m] = "sendText"]_vars

\* ------------------------------------------------------------------ claims about termination
\* C38: every run ends DONE or FAILED; a run that is DONE sent its reply and
\* saved it, a FAILED one went through the controller's catch block; no run
\* makes more than two LLM requests, and once a call of a run has failed the
\* run makes no further LLM request or action and only moves on through the
\* fallback.
C38_EveryRunTerminates ==
    /\ <>(\A m \in Msgs : pc[m] \in {"DONE", "FAILED"})
    /\ [](\A m \in Msgs :
             /\ llmRequests[m] <= 2 /\ apologyAttempts[m] <= 1
             /\ pc[m] = "DONE" => (Range(sent[m]) \cap ReplyTexts(m) # {} /\ OutboundRows(m) # {})
             /\ pc[m] = "FAILED" => failedAt[m] # "none")
    /\ [][\A m \in Msgs :
             failedAt[m] # "none"
             => /\ llmRequests'[m] = llmRequests[m]
                /\ executed'[m] = executed[m]
                /\ failedAt'[m] = failedAt[m]
                /\ pc'[m] # pc[m] => <<pc[m], pc'[m]>> \in {<<"fb_stopTyping", "fb_sendText">>,
                                                            <<"fb_stopTyping", "FAILED">>,
                                                            <<"fb_sendText", "FAILED">>}]_vars

\* C38 witness: both runs are over, one after two LLM requests and one after
\* a failed LLM request
C38_Witness ==
    \E m, n \in Msgs :
        /\ pc[m] = "DONE" /\ llmRequests[m] = 2
        /\ pc[n] = "FAILED" /\ failedAt[n] = "llm" /\ llmRequests[n] = 1

\* ------------------------------------------------------------------ claims about the message log
\* C39: every Message row is RECEIVED exactly when it is INBOUND and SENT
\* exactly when it is OUTBOUND, and no step changes or removes a row: the
\* table only grows at its end.
C39_MessagesTaggedAndImmutable ==
    /\ [](\A i \in Ids(messages) :
             /\ messages[i].direction \in {"INBOUND", "OUTBOUND"}
             /\ messages[i].status = "RECEIVED" <=> messages[i].direction = "INBOUND"
             /\ messages[i].status = "SENT" <=> messages[i].direction = "OUTBOUND")
    /\ [][/\ Len(messages') >= Len(messages)
          /\ \A i \in Ids(messages) : messages'[i] = messages[i]]_vars

\* C39 witness: a run saved its message and its reply
C39_Witness ==
    \E m \in Msgs :
        /\ pc[m] = "DONE"
        /\ \E i \in InboundRows(m), j \in OutboundRows(m) : i < j
====
